---- MODULE Spec2Model ----
(***************************************************************************)
(* Verdo ingester: extraction orchestration layer.                         *)
(*                                                                         *)
(*   SpecIou    NmsProcessor.computeIou on pairs of boxes                  *)
(*   SpecNms    NmsProcessor.removeDuplicates on detection lists           *)
(*   SpecCache  ImageCache used by one caller (set / get / reload)         *)
(*   Spec       Router.process on a PDF (analyze, extract, ids)            *)
(*   SpecExtract    ContentExtractor.extract on a PDF or a PPTX            *)
(*   SpecCacheConc  ImageCache.set called by several pool workers          *)
(*   SpecImage      ImageHandler._processImageAsync and its coordinators   *)
(*   SpecPool, SpecPoolStart   the worker pool of the LLM service          *)
(*   SpecFormula    FormulaHandler.handlePptx on one shape                 *)
(*   SpecTable      TableHandler._buildResult on lists of rows             *)
(*                                                                         *)
(* Confidences are percentages (0.9 is 90); an IoU is the exact fraction   *)
(* <<numerator, denominator>> the code divides, a threshold is a fraction. *)
(***************************************************************************)
EXTENDS Integers, Sequences, FiniteSets, TLC

VARIABLES iou, nms, cache,
          main, doc, analyzed, meta, imageFutures, futures, store, results,
          cc, ih, pool, tbl, fh

pipeVars == <<main, doc, analyzed, meta, imageFutures, futures, store, results>>

moreVars == <<cc, ih, pool, tbl, fh>>

vars == <<iou, nms, cache, pipeVars, moreVars>>

----------------------------------------------------------------------------
(* Bounds *)

\* box coordinates of SpecIou range over 0..MaxCoord
MaxCoord == 2
\* longest detection list handed to removeDuplicates in SpecNms
MaxNms == 3
\* number of ImageCache.set calls in SpecCache
MaxSets == 3
\* pages (slides) of a document in Spec
MaxPages == 2
\* detections (slide elements) of a document in Spec, all pages together
MaxDets == 3

----------------------------------------------------------------------------
(* Generic helpers *)

Max(a, b) == IF a >= b THEN a ELSE b
Min(a, b) == IF a <= b THEN a ELSE b

SeqsUpTo(S, n) == UNION { [1..k -> S] : k \in 0..n }

----------------------------------------------------------------------------
(* core/nms_processor.py *)

\* The fraction computeIou returns, <<numerator, denominator>>: 0.0 on the
\* early return, otherwise interArea / (box1Area + box2Area - interArea),
\* a division that raises ZeroDivisionError when the denominator is 0.
computeIou(b1, b2) ==
  LET interXMin == Max(b1[1], b2[1])
      interYMin == Max(b1[2], b2[2])
      interXMax == Min(b1[3], b2[3])
      interYMax == Min(b1[4], b2[4])
      interArea == (interXMax - interXMin) * (interYMax - interYMin)
      box1Area  == (b1[3] - b1[1]) * (b1[4] - b1[2])
      box2Area  == (b2[3] - b2[1]) * (b2[4] - b2[2])
  IN  IF interXMax < interXMin \/ interYMax < interYMin THEN <<0, 1>>
      ELSE <<interArea, box1Area + box2Area - interArea>>

\* the division of computeIou's last line raises
DivisionRaises(q) == q[2] = 0

\* q <= t for a fraction q = <<n, d>> (d # 0) and a threshold t = <<tn, td>>, td > 0
QuotientLeq(q, t) ==
  IF q[2] > 0 THEN q[1] * t[2] <= t[1] * q[2]
              ELSE q[1] * t[2] >= t[1] * q[2]

\* mutant: an unstable descending sort, equal confidences end up reversed
RECURSIVE InsertDescBeforeEqual(_, _)
InsertDescBeforeEqual(sorted, d) ==
  IF sorted = <<>> THEN <<d>>
  ELSE IF Head(sorted)["conf"] > d["conf"]
       THEN <<Head(sorted)>> \o InsertDescBeforeEqual(Tail(sorted), d)
       ELSE <<d>> \o sorted

\* mutant: reverse=True forgotten, ascending sort
RECURSIVE InsertAsc(_, _)
InsertAsc(sorted, d) ==
  IF sorted = <<>> THEN <<d>>
  ELSE IF Head(sorted)["conf"] <= d["conf"]
       THEN <<Head(sorted)>> \o InsertAsc(Tail(sorted), d)
       ELSE <<d>> \o sorted

\* list.sort(key=conf, reverse=True): stable, descending
RECURSIVE InsertDesc(_, _)
InsertDesc(sorted, d) ==
  IF sorted = <<>> THEN <<d>>
  ELSE IF Head(sorted)["conf"] >= d["conf"]
       THEN <<Head(sorted)>> \o InsertDesc(Tail(sorted), d)
       ELSE <<d>> \o sorted

\* mutant: the list is not sorted, the rounds run in input order
SortInput(ds) == ds

RECURSIVE SortDesc(_)
SortDesc(ds) ==
  IF ds = <<>> THEN <<>>
  ELSE InsertDesc(SortDesc(SubSeq(ds, 1, Len(ds) - 1)), ds[Len(ds)])

\* the filter of one round: d stays when its class differs from best's or
\* its IoU with best is at most the threshold
\* mutant: < for <=, a detection exactly at the threshold is suppressed
SurvivesBelow(d, best, iouThreshold) ==
  \/ d["class_name"] # best["class_name"]
  \/ LET q == computeIou(d["bbox"], best["bbox"])
     IN  IF q[2] > 0 THEN q[1] * iouThreshold[2] < iouThreshold[1] * q[2]
                     ELSE q[1] * iouThreshold[2] > iouThreshold[1] * q[2]

\* mutant: the class test inverted (== for !=)
SurvivesSameClass(d, best, iouThreshold) ==
  \/ d["class_name"] = best["class_name"]
  \/ QuotientLeq(computeIou(d["bbox"], best["bbox"]), iouThreshold)

\* mutant: the class test dropped, suppression across classes
SurvivesAnyClass(d, best, iouThreshold) ==
  QuotientLeq(computeIou(d["bbox"], best["bbox"]), iouThreshold)

Survives(d, best, iouThreshold) ==
  \/ d["class_name"] # best["class_name"]
  \/ QuotientLeq(computeIou(d["bbox"], best["bbox"]), iouThreshold)

\* the comprehension evaluates computeIou only for same-class detections
RoundRaises(rest, best) ==
  \E i \in 1..Len(rest) :
     /\ rest[i]["class_name"] = best["class_name"]
     /\ DivisionRaises(computeIou(rest[i]["bbox"], best["bbox"]))

\* the while loop: [raised |-> computeIou raised, keep |-> the list built]
RECURSIVE Greedy(_, _)
Greedy(sorted, iouThreshold) ==
  IF sorted = <<>> THEN [raised |-> FALSE, keep |-> <<>>]
  ELSE LET best == Head(sorted)
           rest == Tail(sorted)
       IN  IF RoundRaises(rest, best) THEN [raised |-> TRUE, keep |-> <<>>]
           ELSE LET tl == Greedy(SelectSeq(rest, LAMBDA d : Survives(d, best, iouThreshold)),
                                 iouThreshold)
                IN  [raised |-> tl.raised,
                     keep   |-> IF tl.raised THEN <<>> ELSE <<best>> \o tl.keep]

\* removeDuplicates: keep is the list returned when raised is FALSE
removeDuplicates(detections, iouThreshold) ==
  IF detections = <<>> THEN [raised |-> FALSE, keep |-> <<>>]
  ELSE Greedy(SortDesc(detections), iouThreshold)

\* the caller's list object after the call: sorted in place, first item popped
CallerListAfter(detections) ==
  IF detections = <<>> THEN <<>> ELSE Tail(SortDesc(detections))

----------------------------------------------------------------------------
(* handlers/image_handler.py: ImageCache *)

\* A dict is the sequence of its <<key, value>> items in insertion order,
\* keys unique. The persisted file is [kind, items]: kind "absent" (no file),
\* "corrupt" (not parseable) or "json", items the object's members in the
\* order json.dump wrote them.

\* A cached or extracted value is <<text, n>>: the n-th string of its kind.
None == <<"None", 0>>

DictKeys(d) == { d[i][1] : i \in 1..Len(d) }

\* d.get(k)
DictGet(d, k) ==
  IF k \in DictKeys(d)
  THEN LET i == CHOOSE i \in 1..Len(d) : d[i][1] = k IN d[i][2]
  ELSE None

\* d[k] = v: an existing key keeps its place, a new key goes last
DictSet(d, k, v) ==
  IF k \in DictKeys(d)
  THEN [i \in 1..Len(d) |-> IF d[i][1] = k THEN <<k, v>> ELSE d[i]]
  ELSE Append(d, <<k, v>>)

\* json.load of the members of an object: a later duplicate key wins
RECURSIVE JsonLoad(_)
JsonLoad(items) ==
  IF items = <<>> THEN <<>>
  ELSE LET n == Len(items)
       IN  DictSet(JsonLoad(SubSeq(items, 1, n - 1)), items[n][1], items[n][2])

\* _loadCache: {} when the file is missing or json.load raises
loadCache(file) ==
  IF file.kind = "json" THEN JsonLoad(file.items) ELSE <<>>

\* _saveCache: open(..., 'w') and json.dump of the whole dict
saveCache(mem) == [kind |-> "json", items |-> mem]

\* ImageCache.get
get(c, imageHash) == DictGet(c.mem, imageHash)

\* mutant: set without the call of _saveCache
setWithoutSave(c, imageHash, description) ==
  [c EXCEPT !.mem = DictSet(c.mem, imageHash, description)]

\* mutant: set persisting only the entry just set
setSavingEntry(c, imageHash, description) ==
  [c EXCEPT !.mem = DictSet(c.mem, imageHash, description),
            !.file = saveCache(<<<<imageHash, description>>>>)]

\* mutant: set storing nothing
setDropped(c, imageHash, description) == c

\* ImageCache.set
set(c, imageHash, description) ==
  LET mem == DictSet(c.mem, imageHash, description)
  IN  [c EXCEPT !.mem = mem, !.file = saveCache(mem)]

----------------------------------------------------------------------------
(* handlers/image_handler.py: ImageHandler (enableCache, as the Router      *)
(* constructs it)                                                          *)

\* An element of elementsMetadata carries, beside the fields of the code,
\* src (the detection or shape it was built from) and writes (the number of
\* assignments to its content); neither is read by the code.

\* A future is [state, value, task, hash, local, origin]: state "pending",
\* "result" or "exception"; task the coordinator submitted for it, "none",
\* "queued", "cached" (result computed and written to the cache) or
\* "finished"; local the coordinator's result before set_result; origin the
\* element the caller asked for (not read by the code).

ErrorString == <<"<ERROR>", 0>>

NoHash == <<"sha256", <<>>>>

getImageHash(imageBytes) == <<"sha256", imageBytes>>

\* `if cached:` is false for None and for the empty string
Truthy(v) == v # None /\ v[1] # ""

\* _processImageAsync: a resolved future on a cache hit, otherwise a pending
\* future whose coordinator has been submitted to the pool
processImageAsync(c, imageBytes, origin) ==
  LET imageHash == getImageHash(imageBytes)
      cached    == get(c, imageHash)
  IN  IF Truthy(cached)
      THEN [state |-> "result", value |-> cached, task |-> "none",
            hash |-> imageHash, local |-> None, origin |-> origin]
      ELSE [state |-> "pending", value |-> None, task |-> "queued",
            hash |-> imageHash, local |-> None, origin |-> origin]

\* handlePdfAsync whose except clause returns the future unresolved
handlePdfAsyncUnresolved(c, imageBytes, rendered, origin) ==
  IF rendered THEN processImageAsync(c, imageBytes, origin)
  ELSE [state |-> "pending", value |-> None, task |-> "none",
        hash |-> NoHash, local |-> None, origin |-> origin]

\* handlePdfAsync: rendered is FALSE when get_pixmap / tobytes raises
handlePdfAsync(c, imageBytes, rendered, origin) ==
  IF rendered THEN processImageAsync(c, imageBytes, origin)
  ELSE [state |-> "result", value |-> ErrorString, task |-> "none",
        hash |-> NoHash, local |-> None, origin |-> origin]

\* handlePptxAsync: hasBlob is FALSE when shape.image / image.blob raises
handlePptxAsync(c, imageBytes, hasBlob, origin) ==
  IF hasBlob THEN processImageAsync(c, imageBytes, origin)
  ELSE [state |-> "result", value |-> ErrorString, task |-> "none",
        hash |-> NoHash, local |-> None, origin |-> origin]

\* what _dispatch returns for the coordinator of future f: the f-th answer
\* of the AI client
DispatchResult(f) == <<"description", f>>

----------------------------------------------------------------------------
(* handlers/*.py: what the region extraction of a handler can do *)

Unhandled == <<"<UNHANDLED_ELEMENT>", 0>>

\* TextHandler.handlePdf / handlePptx: no try block, an exception of the
\* document reader leaves the handler
TextOutcomes ==
  { [raised |-> FALSE, content |-> <<"text", 0>>],
    [raised |-> TRUE, content |-> None] }

\* TableHandler.handlePdf / handlePptx: a table record, or an error record
\* from the except clause
TableOutcomes ==
  { [raised |-> FALSE, content |-> <<"table", 0>>],
    [raised |-> FALSE, content |-> <<"table error", 0>>] }

\* FormulaHandler.handlePdf / handlePptx: a formula record, or an error
\* record from the except clause
FormulaOutcomes ==
  { [raised |-> FALSE, content |-> <<"formula", 0>>],
    [raised |-> FALSE, content |-> <<"formula error", 0>>] }

\* DefaultHandler.handlePdf / handlePptx
DefaultOutcomes == { [raised |-> FALSE, content |-> Unhandled] }

\* handler.handlePdf(...) / handler.handlePptx(...) of the second pass
RegionOutcomes(handler) ==
  CASE handler = "textHandler" -> TextOutcomes
    [] handler = "tableHandler" -> TableOutcomes
    [] handler = "formulaHandler" -> FormulaOutcomes
    [] OTHER -> DefaultOutcomes

----------------------------------------------------------------------------
(* analyzers/pdf_analyzer.py, extractor/content_extractor.py, core/router.py *)

\* PdfAnalyzer.__init__: iouThreshold=0.7
IouThreshold == <<7, 10>>

\* mutant: the 'abandon' test missing
detectAll(preds) == preds

\* PdfAnalyzer.analyze, the loop over the boxes of one page
detect(preds) == SelectSeq(preds, LAMBDA d : d.class_name # "abandon")

\* mutant of analyzePage: the ignored class is not dropped
analyzePageUnfiltered(preds) == removeDuplicates(preds, IouThreshold)

\* PdfAnalyzer.analyze, one page: [raised, keep]
analyzePage(preds) == removeDuplicates(detect(preds), IouThreshold)

\* mutant: the text handler as the fallback of the handler map
getHandlerTextFallback(elemType) ==
  CASE elemType \in {"image", "figure"} -> "imageHandler"
    [] elemType = "table" -> "tableHandler"
    [] elemType \in {"equation", "isolate_formula"} -> "formulaHandler"
    [] OTHER -> "textHandler"

\* ContentExtractor._getHandler
getHandler(elemType) ==
  CASE elemType \in {"text", "plain text", "title"} -> "textHandler"
    [] elemType \in {"image", "figure"} -> "imageHandler"
    [] elemType = "table" -> "tableHandler"
    [] elemType \in {"equation", "isolate_formula"} -> "formulaHandler"
    [] OTHER -> "defaultHandler"

\* extractFromPdf submits for 'image' and 'figure', extractFromPptx for 'image'
AsyncTypes(kind) == IF kind = "pdf" THEN {"image", "figure"} ELSE {"image"}

\* mutant: the second pass of extractFromPdf skipping 'image' only
skipImageOnly(kind) == {"image"}

\* the element types the second pass leaves to the join pass
SyncSkipTypes(kind) == IF kind = "pdf" THEN {"image", "figure"} ELSE {"image"}

\* mutant: the index of the enumeration recorded with the future
enumeratedIndex(elements, elemIndex) == elemIndex

\* the index recorded with a future, len(elements) - 1: the place (from 1)
\* of the element just appended
recordedIndex(elements, elemIndex) == Len(elements)

\* the first entry of elementsMetadata with the page number, 0 if none
FindPage(metadata, pageNum) ==
  IF \E m \in 1..Len(metadata) : metadata[m].num = pageNum
  THEN CHOOSE m \in 1..Len(metadata) :
         /\ metadata[m].num = pageNum
         /\ \A n \in 1..(m - 1) : metadata[n].num # pageNum
  ELSE 0

\* the n-th value uuid.uuid4() returns
uuid4(n) == n

\* number of elements on the pages before page m
RECURSIVE ElementsBefore(_, _)
ElementsBefore(pages, m) ==
  IF m <= 1 THEN 0
  ELSE ElementsBefore(pages, m - 1) + Len(pages[m - 1].elements)

----------------------------------------------------------------------------
(* SpecIou: computeIou applied to every pair of boxes of the grid *)

Coords == 0..MaxCoord
\* every 4-tuple, the degenerate and the inverted ones included
GridBoxes == Coords \X Coords \X Coords \X Coords

IouIdle == [pc |-> "off", b1 |-> <<0, 0, 0, 0>>, b2 |-> <<0, 0, 0, 0>>,
            raised |-> FALSE, res |-> <<0, 1>>]

NoResult == [raised |-> FALSE, keep |-> <<>>]

CacheIdle == [op |-> "off", mem |-> <<>>, file |-> [kind |-> "absent", items |-> <<>>],
              fresh |-> <<>>, sets |-> 0, latest |-> <<>>,
              got |-> [hash |-> "", value |-> None]]

MainIdle == [kind |-> "off", router |-> FALSE, pc |-> "off", i |-> 1, j |-> 1, k |-> 1,
             cur |-> <<>>, error |-> "", nextId |-> 1]

EmptyStore == [mem |-> <<>>, file |-> [kind |-> "absent", items |-> <<>>]]

Off == [pc |-> "off"]

MoreIdle ==
  /\ cc = Off
  /\ ih = Off
  /\ pool = Off
  /\ tbl = Off
  /\ fh = Off

PipeIdle ==
  /\ MoreIdle
  /\ main = MainIdle
  /\ doc = <<>>
  /\ analyzed = <<>>
  /\ meta = <<>>
  /\ imageFutures = <<>>
  /\ futures = <<>>
  /\ store = EmptyStore
  /\ results = <<>>

NmsIdle == [pc |-> "off", input |-> <<>>, thr |-> <<7, 10>>, arg |-> <<>>,
            first |-> NoResult, second |-> NoResult]

InitIou ==
  /\ iou \in [pc : {"call"}, b1 : GridBoxes, b2 : GridBoxes,
              raised : {FALSE}, res : {<<0, 1>>}]
  /\ nms = NmsIdle
  /\ cache = CacheIdle
  /\ PipeIdle

CallComputeIou ==
  /\ iou.pc = "call"
  /\ LET q == computeIou(iou.b1, iou.b2)
     IN  iou' = [iou EXCEPT !.pc = "returned",
                            !.raised = DivisionRaises(q),
                            !.res = IF DivisionRaises(q) THEN <<0, 1>> ELSE q]
  /\ UNCHANGED <<nms, cache, pipeVars, moreVars>>

NextIou == CallComputeIou

SpecIou == InitIou /\ [][NextIou]_vars

\* zero width or height, or a max below its min
Degenerate(b) == b[3] <= b[1] \/ b[4] <= b[2]

\* the rectangles share no area: intersection width or height <= 0
Disjoint(b1, b2) ==
  \/ Min(b1[3], b2[3]) <= Max(b1[1], b2[1])
  \/ Min(b1[4], b2[4]) <= Max(b1[2], b2[2])

\* C9: computeIou never raises and never returns a negative value, and it
\* returns 0 for boxes that do not overlap and for degenerate or inverted boxes
C9_ComputeIouTotal ==
  iou.pc = "returned" =>
    /\ ~iou.raised
    /\ iou.res[1] * iou.res[2] >= 0
    /\ (Disjoint(iou.b1, iou.b2) \/ Degenerate(iou.b1) \/ Degenerate(iou.b2))
          => iou.res[1] = 0

----------------------------------------------------------------------------
(* SpecNms: removeDuplicates applied to every short detection list, and *)
(* applied again to its own result                                       *)

\* [0,0,10,10] and [1,1,9,9] have IoU 0.64 (the example of the design notes,
\* and the value of one of the thresholds),
\* [0,0,10,9] has IoU 0.9 with the first and 0.711 with the second,
\* [5,5,5,5] is a zero-area box inside all of them
NmsBoxes == { <<0, 0, 10, 10>>, <<1, 1, 9, 9>>, <<0, 0, 10, 9>>, <<5, 5, 5, 5>> }
NmsClasses == { "text", "figure" }
NmsConfs == { 80, 90 }
Thresholds == { <<1, 2>>, <<16, 25>>, <<7, 10>> }

NmsDets == [class_name : NmsClasses, bbox : NmsBoxes, conf : NmsConfs]

\* src is the position in the list the detector emitted (not read by the code)
Tagged(ds) ==
  [i \in 1..Len(ds) |->
     [class_name |-> ds[i].class_name, bbox |-> ds[i].bbox,
      conf |-> ds[i].conf, src |-> i]]

InitNms ==
  /\ \E ds \in SeqsUpTo(NmsDets, MaxNms), t \in Thresholds :
        nms = [NmsIdle EXCEPT !.pc = "call", !.input = Tagged(ds),
                              !.thr = t, !.arg = Tagged(ds)]
  /\ iou = IouIdle
  /\ cache = CacheIdle
  /\ PipeIdle

CallRemoveDuplicates ==
  /\ nms.pc = "call"
  /\ nms' = [nms EXCEPT !.pc = "once",
                        !.first = removeDuplicates(nms.input, nms.thr),
                        !.arg = CallerListAfter(nms.input)]
  /\ UNCHANGED <<iou, cache, pipeVars, moreVars>>

CallRemoveDuplicatesAgain ==
  /\ nms.pc = "once"
  /\ ~nms.first.raised
  /\ nms' = [nms EXCEPT !.pc = "twice",
                        !.second = removeDuplicates(nms.first.keep, nms.thr)]
  /\ UNCHANGED <<iou, cache, pipeVars, moreVars>>

NextNms == CallRemoveDuplicates \/ CallRemoveDuplicatesAgain

SpecNms == InitNms /\ [][NextNms]_vars

Returned == nms.pc \in {"once", "twice"} /\ ~nms.first.raised

\* the IoU of two detections is defined and above the threshold
Above(d, e, t) ==
  LET q == computeIou(d.bbox, e.bbox)
  IN  ~DivisionRaises(q) /\ ~QuotientLeq(q, t)

\* the IoU of two detections is defined and at most the threshold
AtMost(d, e, t) ==
  LET q == computeIou(d.bbox, e.bbox)
  IN  ~DivisionRaises(q) /\ QuotientLeq(q, t)

KeptSrc == { nms.first.keep[i].src : i \in 1..Len(nms.first.keep) }

\* C5: after removeDuplicates returns, any two kept detections of one class
\* have an IoU at most the threshold
C5_KeptSameClassAtMostThreshold ==
  Returned =>
    \A i, j \in 1..Len(nms.first.keep) :
      (i < j /\ nms.first.keep[i].class_name = nms.first.keep[j].class_name)
        => AtMost(nms.first.keep[i], nms.first.keep[j], nms.thr)

\* a call that suppressed a detection and kept two detections of one class
C5_Witness ==
  /\ Returned
  /\ Len(nms.first.keep) < Len(nms.input)
  /\ \E i, j \in 1..Len(nms.first.keep) :
        /\ i < j
        /\ nms.first.keep[i].class_name = nms.first.keep[j].class_name
        /\ nms.first.keep[i].bbox # nms.first.keep[j].bbox
        /\ computeIou(nms.first.keep[i].bbox, nms.first.keep[j].bbox)[1] > 0

\* C6: a detection is absent from the result only if a kept detection of its
\* own class overlaps it above the threshold; a list of detections of
\* pairwise different classes is kept whole
C6_RemovedOnlyBySameClass ==
  Returned =>
    /\ \A i \in 1..Len(nms.input) :
          i \notin KeptSrc =>
            \E k \in 1..Len(nms.first.keep) :
               /\ nms.first.keep[k].class_name = nms.input[i].class_name
               /\ Above(nms.input[i], nms.first.keep[k], nms.thr)
    /\ (\A i, j \in 1..Len(nms.input) :
           i # j => nms.input[i].class_name # nms.input[j].class_name)
         => Len(nms.first.keep) = Len(nms.input)

\* two boxes with IoU 1.0 and different classes, both kept
C6_Witness ==
  /\ Returned
  /\ Len(nms.input) = 2
  /\ nms.input[1].bbox = nms.input[2].bbox
  /\ LET q == computeIou(nms.input[1].bbox, nms.input[2].bbox)
     IN  q[2] > 0 /\ q[1] = q[2]
  /\ nms.input[1].class_name # nms.input[2].class_name
  /\ KeptSrc = {1, 2}

\* C7: removeDuplicates applied to its own result returns that result, the
\* same detections in the same order
C7_Idempotent ==
  nms.pc = "twice" => (~nms.second.raised /\ nms.second.keep = nms.first.keep)

\* a second call on a result that the first call had shortened and that
\* holds two detections of equal confidence
C7_Witness ==
  /\ nms.pc = "twice"
  /\ Len(nms.first.keep) < Len(nms.input)
  /\ \E i, j \in 1..Len(nms.first.keep) :
        i < j /\ nms.first.keep[i].conf = nms.first.keep[j].conf

\* no two detections of one class in the input overlap above the threshold
NoSameClassOverlap ==
  \A i, j \in 1..Len(nms.input) :
    (i # j /\ nms.input[i].class_name = nms.input[j].class_name)
      => ~Above(nms.input[i], nms.input[j], nms.thr)

----------------------------------------------------------------------------
(* SpecCache: one ImageCache object used by one caller, and fresh          *)
(* ImageCache objects constructed on its directory                         *)

Hashes == { "h1", "h2" }
Descriptions == { <<"desc", 1>>, <<"desc", 2>> }

\* what an earlier process may have left in the directory
StoredFiles ==
  { [kind |-> "absent", items |-> <<>>],
    [kind |-> "corrupt", items |-> <<>>],
    [kind |-> "json", items |-> <<>>],
    [kind |-> "json", items |-> <<<<"h1", <<"desc", 1>>>>>>],
    [kind |-> "json", items |-> <<<<"h2", <<"desc", 2>>>>, <<"h1", <<"desc", 2>>>>>>] }

\* ImageCache.__init__: the dict is loaded from the file
InitCache ==
  /\ \E f \in StoredFiles :
        cache = [CacheIdle EXCEPT !.op = "init", !.file = f, !.mem = loadCache(f)]
  /\ iou = IouIdle
  /\ nms = NmsIdle
  /\ PipeIdle

\* cache.set(h, v); latest keeps the value last set for each hash
CacheSet ==
  /\ cache.op # "off"
  /\ cache.sets < MaxSets
  /\ \E h \in Hashes, v \in Descriptions :
        cache' = [set(cache, h, v) EXCEPT !.op = "set",
                                          !.sets = cache.sets + 1,
                                          !.latest = DictSet(cache.latest, h, v)]
  /\ UNCHANGED <<iou, nms, pipeVars, moreVars>>

\* cache.get(h)
CacheGet ==
  /\ cache.op # "off"
  /\ \E h \in Hashes :
        cache' = [cache EXCEPT !.op = "get",
                               !.got = [hash |-> h, value |-> get(cache, h)]]
  /\ UNCHANGED <<iou, nms, pipeVars, moreVars>>

\* ImageCache(cacheDir) constructed anew on the same directory
CacheFresh ==
  /\ cache.op # "off"
  /\ cache' = [cache EXCEPT !.op = "fresh", !.fresh = loadCache(cache.file)]
  /\ UNCHANGED <<iou, nms, pipeVars, moreVars>>

NextCache == CacheSet \/ CacheGet \/ CacheFresh

SpecCache == InitCache /\ [][NextCache]_vars

\* the hash -> value entries of a dict
Entries(d) == { d[i] : i \in 1..Len(d) }

----------------------------------------------------------------------------
(* Spec: Router.process on a PDF (PdfAnalyzer.analyze, ContentExtractor    *)
(* .extractFromPdf, ids).                                                  *)
(* SpecExtract: ContentExtractor.extract on a PDF or a PPTX with the       *)
(* analyzed elements its caller passes.                                    *)
(* In both the coordinators of the image handler run on pool workers       *)
(* beside the extracting thread.                                           *)

BoxA == <<0, 0, 10, 10>>
BoxB == <<1, 1, 9, 9>>
BoxC == <<0, 0, 10, 9>>

\* what the detector may emit for a page
PdfDets ==
  { [class_name |-> "abandon", bbox |-> BoxA, conf |-> 95],
    [class_name |-> "text", bbox |-> BoxA, conf |-> 90],
    [class_name |-> "text", bbox |-> BoxC, conf |-> 95],
    [class_name |-> "image", bbox |-> BoxB, conf |-> 95] }

\* the detections of a page a caller of extract may pass
ExtractDets ==
  { [class_name |-> "text", bbox |-> BoxA, conf |-> 90],
    [class_name |-> "figure", bbox |-> BoxB, conf |-> 95],
    [class_name |-> "figure_caption", bbox |-> BoxA, conf |-> 80] }

\* the analyzed elements of a slide: found is FALSE when _findShape finds
\* no shape at the element's position
PptxElems ==
  { [classified_type |-> "text", found |-> FALSE],
    [classified_type |-> "text", found |-> TRUE],
    [classified_type |-> "image", found |-> TRUE],
    [classified_type |-> "chart", found |-> TRUE] }

\* the picture every image shape of the slides shows
Blob == <<"blob">>

\* documents of n pages with at most b items in all
RECURSIVE DocsWith(_, _, _)
DocsWith(S, n, b) ==
  IF n = 0 THEN { <<>> }
  ELSE UNION { { <<pg>> \o rest : pg \in [1..k -> S], rest \in DocsWith(S, n - 1, b - k) } :
               k \in 0..b }

Docs(S) == UNION { DocsWith(S, n, MaxDets) : n \in 1..MaxPages }

TaggedShapes(es) ==
  [i \in 1..Len(es) |->
     [classified_type |-> es[i].classified_type, position |-> i,
      found |-> es[i].found, src |-> i]]

PipeStart ==
  /\ meta = <<>>
  /\ imageFutures = <<>>
  /\ futures = <<>>
  /\ store = EmptyStore
  /\ results = <<>>
  /\ iou = IouIdle
  /\ nms = NmsIdle
  /\ cache = CacheIdle
  /\ MoreIdle

\* Router.process(filePath) on a PDF: doc is what the detector emits
Init ==
  /\ \E d \in Docs(PdfDets) : doc = [p \in 1..Len(d) |-> Tagged(d[p])]
  /\ main = [MainIdle EXCEPT !.kind = "pdf", !.router = TRUE, !.pc = "analyze"]
  /\ analyzed = <<>>
  /\ PipeStart

\* extract(filePath, analyzedElements) on a PDF
InitExtractPdf ==
  /\ \E d \in Docs(ExtractDets) :
        /\ doc = [p \in 1..Len(d) |-> Tagged(d[p])]
        /\ analyzed = [p \in 1..Len(d) |-> [num |-> p, items |-> Tagged(d[p])]]
  /\ main = [MainIdle EXCEPT !.kind = "pdf", !.pc = "submit"]

\* extract(filePath, analyzedElements) on a PPTX
InitExtractPptx ==
  /\ \E d \in Docs(PptxElems) :
        /\ doc = [p \in 1..Len(d) |-> TaggedShapes(d[p])]
        /\ analyzed = [p \in 1..Len(d) |-> [num |-> p, items |-> TaggedShapes(d[p])]]
  /\ main = [MainIdle EXCEPT !.kind = "pptx", !.pc = "submit"]

InitExtract ==
  /\ InitExtractPdf \/ InitExtractPptx
  /\ PipeStart

Raise(e) == [main EXCEPT !.pc = "raised", !.error = e]

\* PdfAnalyzer.analyze, one page: analyzed gets [num, items], the page
\* number and the detections kept
AnalyzePage ==
  /\ main.kind = "pdf"
  /\ main.pc = "analyze"
  /\ LET r == analyzePage(doc[main.i])
         last == main.i = Len(doc)
     IN  IF r.raised
         THEN /\ main' = Raise("ZeroDivisionError")
              /\ UNCHANGED analyzed
         ELSE /\ analyzed' = Append(analyzed, [num |-> main.i, items |-> r.keep])
              /\ main' = [main EXCEPT !.i = IF last THEN 1 ELSE main.i + 1,
                                      !.pc = IF last THEN "submit" ELSE "analyze"]
  /\ UNCHANGED <<doc, meta, imageFutures, futures, store, results, iou, nms, cache, moreVars>>

\* extractFromPdf, first pass, one detection
SubmitPdfElement ==
  /\ main.kind = "pdf"
  /\ main.pc = "submit"
  /\ main.j <= Len(analyzed[main.i].items)
  /\ LET det == analyzed[main.i].items[main.j]
         pageNum == analyzed[main.i].num
         elemData == [type |-> det.class_name, bbox |-> det.bbox,
                      confidence |-> det.conf, content |-> None,
                      handler |-> getHandler(det.class_name), src |-> det.src,
                      writes |-> 0]
         pageElements == Append(main.cur, elemData)
     IN  /\ main' = [main EXCEPT !.cur = pageElements, !.j = main.j + 1]
         /\ IF det.class_name \in AsyncTypes("pdf")
            THEN \E rendered \in BOOLEAN :
                   /\ futures' = Append(futures,
                         handlePdfAsync(store, det.bbox, rendered, <<pageNum, det.src>>))
                   /\ imageFutures' = Append(imageFutures,
                         <<pageNum, recordedIndex(pageElements, main.j), Len(futures) + 1>>)
            ELSE UNCHANGED <<futures, imageFutures>>
  /\ UNCHANGED <<doc, analyzed, meta, store, results, iou, nms, cache, moreVars>>

\* extractFromPptx, first pass, one analyzed element
SubmitPptxElement ==
  /\ main.kind = "pptx"
  /\ main.pc = "submit"
  /\ main.j <= Len(analyzed[main.i].items)
  /\ LET elem == analyzed[main.i].items[main.j]
         slideNum == analyzed[main.i].num
         elemData == [type |-> elem.classified_type, position |-> elem.position,
                      content |-> None,
                      handler |-> getHandler(elem.classified_type), src |-> elem.src,
                      writes |-> 0]
         slideElements == Append(main.cur, elemData)
     IN  IF ~elem.found
         THEN /\ main' = [main EXCEPT !.j = main.j + 1]
              /\ UNCHANGED <<futures, imageFutures>>
         ELSE /\ main' = [main EXCEPT !.cur = slideElements, !.j = main.j + 1]
              /\ IF elem.classified_type \in AsyncTypes("pptx")
                 THEN \E hasBlob \in BOOLEAN :
                        /\ futures' = Append(futures,
                              handlePptxAsync(store, Blob, hasBlob, <<slideNum, elem.src>>))
                        /\ imageFutures' = Append(imageFutures,
                              <<slideNum, recordedIndex(slideElements, main.j),
                                Len(futures) + 1>>)
                 ELSE UNCHANGED <<futures, imageFutures>>
  /\ UNCHANGED <<doc, analyzed, meta, store, results, iou, nms, cache, moreVars>>

\* mutant: the futures are joined right after the submissions
passAfterJoinFirst(pass) == IF pass = "submit" THEN "join" ELSE "sync"

\* the pass that follows a pass of extractFromPdf / extractFromPptx
passAfter(pass) == IF pass = "submit" THEN "sync" ELSE "join"

\* first pass, end of a page: elementsMetadata.append((num, elements))
SubmitEndPage ==
  /\ main.pc = "submit"
  /\ main.j > Len(analyzed[main.i].items)
  /\ meta' = Append(meta, [num |-> analyzed[main.i].num, elems |-> main.cur])
  /\ main' = IF main.i = Len(analyzed)
             THEN [main EXCEPT !.pc = passAfter("submit"), !.i = 1, !.j = 1, !.cur = <<>>]
             ELSE [main EXCEPT !.i = main.i + 1, !.j = 1, !.cur = <<>>]
  /\ UNCHANGED <<doc, analyzed, imageFutures, futures, store, results, iou, nms, cache, moreVars>>

\* second pass, one element: the handler's region extraction for the
\* elements not submitted; an exception of the handler leaves extract
SyncElement ==
  /\ main.pc = "sync"
  /\ main.j <= Len(meta[main.i].elems)
  /\ LET e == meta[main.i].elems[main.j]
     IN  IF e.type \in SyncSkipTypes(main.kind)
         THEN /\ main' = [main EXCEPT !.j = main.j + 1]
              /\ UNCHANGED meta
         ELSE \E o \in RegionOutcomes(e.handler) :
                IF o.raised
                THEN /\ main' = Raise("HandlerException")
                     /\ UNCHANGED meta
                ELSE /\ meta' = [meta EXCEPT ![main.i].elems[main.j].content = o.content,
                                              ![main.i].elems[main.j].writes = @ + 1]
                     /\ main' = [main EXCEPT !.j = main.j + 1]
  /\ UNCHANGED <<doc, analyzed, imageFutures, futures, store, results, iou, nms, cache, moreVars>>

\* second pass, end of a page
SyncEndPage ==
  /\ main.pc = "sync"
  /\ main.j > Len(meta[main.i].elems)
  /\ main' = IF main.i = Len(meta)
             THEN [main EXCEPT !.pc = passAfter("sync"), !.i = 1, !.j = 1, !.k = 1]
             ELSE [main EXCEPT !.i = main.i + 1, !.j = 1]
  /\ UNCHANGED <<doc, analyzed, meta, imageFutures, futures, store, results, iou, nms, cache, moreVars>>

\* third pass, one recorded future: future.result() blocks while the future
\* is pending and raises the exception the future carries
Join ==
  /\ main.pc = "join"
  /\ main.k <= Len(imageFutures)
  /\ LET rec == imageFutures[main.k]
         f == futures[rec[3]]
         m == FindPage(meta, rec[1])
     IN  /\ m = 0 \/ f.state # "pending"
         /\ IF m = 0
            THEN /\ main' = [main EXCEPT !.k = main.k + 1]
                 /\ UNCHANGED meta
            ELSE IF f.state = "exception"
            THEN /\ main' = Raise("FutureException")
                 /\ UNCHANGED meta
            ELSE IF rec[2] \notin 1..Len(meta[m].elems)
            THEN /\ main' = Raise("IndexError")
                 /\ UNCHANGED meta
            ELSE /\ meta' = [meta EXCEPT ![m].elems[rec[2]].content = f.value,
                                          ![m].elems[rec[2]].writes = @ + 1]
                 /\ main' = [main EXCEPT !.k = main.k + 1]
  /\ UNCHANGED <<doc, analyzed, imageFutures, futures, store, results, iou, nms, cache, moreVars>>

\* extractFromPdf, the final results (id 0: no id yet), returned to the
\* Router or to the caller of extract
BuildResultsPdf ==
  /\ main.kind = "pdf"
  /\ main.pc = "join"
  /\ main.k > Len(imageFutures)
  /\ results' =
       [m \in 1..Len(meta) |->
          [num |-> meta[m].num,
           elements |->
             [e \in 1..Len(meta[m].elems) |->
                [type |-> meta[m].elems[e].type, bbox |-> meta[m].elems[e].bbox,
                 confidence |-> meta[m].elems[e].confidence,
                 content |-> meta[m].elems[e].content,
                 src |-> meta[m].elems[e].src, id |-> 0]]]]
  /\ main' = [main EXCEPT !.pc = IF main.router THEN "ids" ELSE "done"]
  /\ UNCHANGED <<doc, analyzed, meta, imageFutures, futures, store, iou, nms, cache, moreVars>>

\* extractFromPptx, the final results
BuildResultsPptx ==
  /\ main.kind = "pptx"
  /\ main.pc = "join"
  /\ main.k > Len(imageFutures)
  /\ results' =
       [m \in 1..Len(meta) |->
          [num |-> meta[m].num,
           elements |->
             [e \in 1..Len(meta[m].elems) |->
                [type |-> meta[m].elems[e].type,
                 position |-> meta[m].elems[e].position,
                 content |-> meta[m].elems[e].content,
                 src |-> meta[m].elems[e].src]]]]
  /\ main' = [main EXCEPT !.pc = "done"]
  /\ UNCHANGED <<doc, analyzed, meta, imageFutures, futures, store, iou, nms, cache, moreVars>>

\* Router.process: element['id'] = str(uuid.uuid4()) for every element
AssignIds ==
  /\ main.pc = "ids"
  /\ results' =
       [m \in 1..Len(results) |->
          [results[m] EXCEPT !.elements =
             [e \in 1..Len(results[m].elements) |->
                [results[m].elements[e] EXCEPT
                   !.id = uuid4(main.nextId + ElementsBefore(results, m) + e - 1)]]]]
  /\ main' = [main EXCEPT !.pc = "done",
                          !.nextId = main.nextId + ElementsBefore(results, Len(results) + 1)]
  /\ UNCHANGED <<doc, analyzed, meta, imageFutures, futures, store, iou, nms, cache, moreVars>>

\* coordinator of future f on a pool worker: the AI call of _categorize or
\* _dispatch raises, future.set_exception
CoordinatorRaises ==
  /\ \E f \in 1..Len(futures) :
        /\ futures[f].task = "queued"
        /\ futures' = [futures EXCEPT ![f].state = "exception", ![f].task = "finished"]
  /\ UNCHANGED <<main, doc, analyzed, meta, imageFutures, store, results, iou, nms, cache, moreVars>>

\* coordinator of future f: categorized, dispatched, cache.set(imageHash, result)
CoordinatorCaches ==
  /\ \E f \in 1..Len(futures) :
        /\ futures[f].task = "queued"
        /\ store' = set(store, futures[f].hash, DispatchResult(f))
        /\ futures' = [futures EXCEPT ![f].local = DispatchResult(f), ![f].task = "cached"]
  /\ UNCHANGED <<main, doc, analyzed, meta, imageFutures, results, iou, nms, cache, moreVars>>

\* coordinator of future f: future.set_result(result)
CoordinatorResolves ==
  /\ \E f \in 1..Len(futures) :
        /\ futures[f].task = "cached"
        /\ futures' = [futures EXCEPT ![f].state = "result",
                                      ![f].value = futures[f].local,
                                      ![f].task = "finished"]
  /\ UNCHANGED <<main, doc, analyzed, meta, imageFutures, store, results, iou, nms, cache, moreVars>>

Next ==
  \/ AnalyzePage
  \/ SubmitPdfElement
  \/ SubmitEndPage
  \/ SyncElement
  \/ SyncEndPage
  \/ Join
  \/ BuildResultsPdf
  \/ AssignIds
  \/ CoordinatorRaises
  \/ CoordinatorCaches
  \/ CoordinatorResolves

Spec == Init /\ [][Next]_vars

NextExtract ==
  \/ SubmitPdfElement
  \/ SubmitPptxElement
  \/ SubmitEndPage
  \/ SyncElement
  \/ SyncEndPage
  \/ Join
  \/ BuildResultsPdf
  \/ BuildResultsPptx
  \/ CoordinatorRaises
  \/ CoordinatorCaches
  \/ CoordinatorResolves

SpecExtract == InitExtract /\ [][NextExtract]_vars

----------------------------------------------------------------------------
(* Claims on Spec and SpecExtract *)

\* C1: extract never raises because of one element: neither an exception of
\* a synchronous handler nor an exception carried by an image future leaves
\* extract, which returns the page with the content of the other elements
C1_ExtractNeverRaises ==
  main.pc = "raised" => main.error \notin {"HandlerException", "FutureException"}

\* the places (from 1) of the analyzed items of a page that got an element
Built(items, kind) ==
  SelectSeq([i \in 1..Len(items) |-> items[i]],
            LAMBDA it : IF kind = "pptx" THEN it.found ELSE TRUE)

\* C2: the join pass writes the value of the future recorded at index i into
\* element i of its page, the element the future was submitted for, whatever
\* the order of completion; and the elements returned for a page are, in
\* order and number, the elements the first pass built for it
C2_JoinByRecordedIndex ==
  /\ main.error # "IndexError"
  /\ \A n \in 1..Len(imageFutures) :
        n < main.k =>
          LET rec == imageFutures[n]
              f == futures[rec[3]]
              m == FindPage(meta, rec[1])
          IN  /\ m # 0
              /\ meta[m].num = f.origin[1]
              /\ rec[2] \in 1..Len(meta[m].elems)
              /\ meta[m].elems[rec[2]].src = f.origin[2]
              /\ meta[m].elems[rec[2]].content = f.value
  /\ main.pc = "done" =>
        /\ Len(results) = Len(analyzed)
        /\ \A m \in 1..Len(results) :
              LET built == Built(analyzed[m].items, main.kind)
              IN  /\ results[m].num = analyzed[m].num
                  /\ Len(results[m].elements) = Len(built)
                  /\ \A e \in 1..Len(built) :
                        /\ results[m].elements[e].src = built[e].src
                        /\ results[m].elements[e].content = meta[m].elems[e].content

\* a slide whose first element was dropped and whose two images were both
\* described by the AI client, the coordinator of the second image writing
\* the cache before the coordinator of the first
C2_Witness ==
  /\ main.kind = "pptx"
  /\ main.pc = "done"
  /\ Len(analyzed[1].items) = 3
  /\ ~analyzed[1].items[1].found
  /\ Len(results[1].elements) = 2
  /\ results[1].elements[1].content = DispatchResult(1)
  /\ results[1].elements[2].content = DispatchResult(2)
  /\ get(store, getImageHash(Blob)) = DispatchResult(1)

\* the elements of the pages returned, page after page
RECURSIVE Flat(_, _)
Flat(pages, m) ==
  IF m = 0 THEN <<>> ELSE Flat(pages, m - 1) \o pages[m].elements

IdsDistinct ==
  LET all == Flat(results, Len(results))
  IN  \A a, b \in 1..Len(all) : a # b => all[a].id # all[b].id

\* the example: [(abandon), (text, 0.9, bboxA), (image, 0.95, bboxB)]
ExamplePage(p) ==
  /\ Len(doc[p]) = 3
  /\ doc[p][1].class_name = "abandon"
  /\ doc[p][2] = [class_name |-> "text", bbox |-> BoxA, conf |-> 90, src |-> 2]
  /\ doc[p][3] = [class_name |-> "image", bbox |-> BoxB, conf |-> 95, src |-> 3]

SrcOf(items) == { items[i].src : i \in 1..Len(items) }

\* C4: an 'abandon' detection is dropped before suppression and dispatch: it
\* suppresses no detection, no handler is resolved and no task submitted for
\* it, and no element has its type
C4_AbandonDropped ==
  /\ \A m \in 1..Len(analyzed) :
        /\ \A i \in 1..Len(analyzed[m].items) : analyzed[m].items[i].class_name # "abandon"
        /\ \A i \in 1..Len(doc[analyzed[m].num]) :
              LET d == doc[analyzed[m].num][i]
              IN  (d.class_name # "abandon" /\ i \notin SrcOf(analyzed[m].items)) =>
                    \E n \in 1..Len(analyzed[m].items) :
                       /\ analyzed[m].items[n].class_name = d.class_name
                       /\ Above(d, analyzed[m].items[n], IouThreshold)
  /\ \A e \in 1..Len(main.cur) : main.cur[e].type # "abandon"
  /\ \A m \in 1..Len(meta) :
        \A e \in 1..Len(meta[m].elems) : meta[m].elems[e].type # "abandon"
  /\ \A f \in 1..Len(futures) :
        doc[futures[f].origin[1]][futures[f].origin[2]].class_name # "abandon"
  /\ \A m \in 1..Len(results) :
        \A e \in 1..Len(results[m].elements) : results[m].elements[e].type # "abandon"

\* a page whose most confident detection is 'abandon', over the box of a
\* text and overlapping an image, returned with the text and the image
C4_Witness ==
  /\ main.pc = "done"
  /\ Len(doc[1]) = 3
  /\ doc[1][1] = [class_name |-> "abandon", bbox |-> BoxA, conf |-> 95, src |-> 1]
  /\ \E e \in 1..Len(results[1].elements) :
        results[1].elements[e].type = "text" /\ results[1].elements[e].bbox = BoxA
  /\ \E e \in 1..Len(results[1].elements) : results[1].elements[e].type = "image"
  /\ Len(results[1].elements) = 2
  /\ Len(futures) = 1

----------------------------------------------------------------------------
(* SpecCacheConc: coordinators on pool workers calling ImageCache.set on    *)
(* one ImageCache object. The file is the sequence of the tokens written    *)
(* to it: one token per member of the object, then the closing token.       *)

CacheWorkers == 2

WorkerIds == 1..CacheWorkers

\* the token json.dump writes last
End == <<"}", None>>

\* what a position holds that no handle has written (a hole past a truncation)
Hole == <<"\\0", None>>

\* the text json.dump writes for a dict
JsonDump(d) == d \o <<End>>

\* json.load of a text accepts one whole object and nothing else
Parses(text) ==
  /\ Len(text) >= 1
  /\ text[Len(text)] = End
  /\ \A i \in 1..(Len(text) - 1) : text[i] \notin {End, Hole}

\* file.write at the handle's position: the positions before and after
\* the bytes written keep what they hold
WriteAt(text, pos, buf) ==
  [i \in 1..Max(Len(text), pos + Len(buf)) |->
      IF i > pos /\ i <= pos + Len(buf) THEN buf[i - pos]
      ELSE IF i <= Len(text) THEN text[i]
      ELSE Hole]

WorkerStart == [pc |-> "call", hash |-> "", value |-> None, buf |-> <<>>,
                pos |-> 0, k |-> 1, n |-> 0]

\* the cache of a running process: loaded from an absent file or from a
\* file holding one entry
InitCacheConc ==
  /\ \E m \in { <<>>, <<<<"h1", <<"desc", 1>>>>>> } :
        cc = [pc |-> "on", mem |-> m,
              text |-> IF m = <<>> THEN <<>> ELSE JsonDump(m),
              w |-> [i \in WorkerIds |-> WorkerStart]]
  /\ iou = IouIdle
  /\ nms = NmsIdle
  /\ cache = CacheIdle
  /\ ih = Off /\ pool = Off /\ tbl = Off /\ fh = Off
  /\ main = MainIdle /\ doc = <<>> /\ analyzed = <<>> /\ meta = <<>>
  /\ imageFutures = <<>> /\ futures = <<>> /\ store = EmptyStore
  /\ results = <<>>

ConcUnchanged ==
  UNCHANGED <<iou, nms, cache, pipeVars, ih, pool, tbl, fh>>

\* set, first statement: self.cache[imageHash] = description
SetAssign(i) ==
  /\ cc.pc = "on"
  /\ cc.w[i].pc = "call"
  /\ \E h \in Hashes, v \in Descriptions :
        cc' = [cc EXCEPT !.mem = DictSet(cc.mem, h, v),
                         !.w[i].hash = h, !.w[i].value = v,
                         !.w[i].pc = "open"]
  /\ ConcUnchanged

\* _saveCache: open(self.cacheFile, 'w') truncates the file
SaveOpen(i) ==
  /\ cc.pc = "on"
  /\ cc.w[i].pc = "open"
  /\ cc' = [cc EXCEPT !.text = <<>>, !.w[i].pc = "dump", !.w[i].buf = <<>>,
                      !.w[i].pos = 0, !.w[i].k = 1, !.w[i].n = Len(cc.mem)]
  /\ ConcUnchanged

\* json.dump, one step of the iteration over self.cache: the next member
\* goes to the handle's buffer, the closing token after the last member;
\* a dict whose size changed since the iteration began raises RuntimeError,
\* which _saveCache swallows
SaveDumpStep(i) ==
  /\ cc.pc = "on"
  /\ cc.w[i].pc = "dump"
  /\ LET me == cc.w[i]
     IN  IF Len(cc.mem) # me.n
         THEN cc' = [cc EXCEPT !.w[i].pc = "close"]
         ELSE IF me.k <= me.n
         THEN cc' = [cc EXCEPT !.w[i].buf = Append(me.buf, cc.mem[me.k]),
                               !.w[i].k = me.k + 1]
         ELSE cc' = [cc EXCEPT !.w[i].buf = Append(me.buf, End),
                               !.w[i].pc = "close"]
  /\ ConcUnchanged

\* the handle's buffer fills while json.dump runs: its content is written
\* at the handle's position
SaveFlush(i) ==
  /\ cc.pc = "on"
  /\ cc.w[i].pc = "dump"
  /\ cc.w[i].buf # <<>>
  /\ LET me == cc.w[i]
     IN  cc' = [cc EXCEPT !.text = WriteAt(cc.text, me.pos, me.buf),
                          !.w[i].pos = me.pos + Len(me.buf),
                          !.w[i].buf = <<>>]
  /\ ConcUnchanged

\* the with block ends: the buffer is written and the handle closed
SaveClose(i) ==
  /\ cc.pc = "on"
  /\ cc.w[i].pc = "close"
  /\ LET me == cc.w[i]
     IN  cc' = [cc EXCEPT !.text = WriteAt(cc.text, me.pos, me.buf),
                          !.w[i].pos = me.pos + Len(me.buf),
                          !.w[i].buf = <<>>,
                          !.w[i].pc = "done"]
  /\ ConcUnchanged

NextCacheConc ==
  \E i \in WorkerIds :
     SetAssign(i) \/ SaveOpen(i) \/ SaveDumpStep(i) \/ SaveFlush(i) \/ SaveClose(i)

SpecCacheConc == InitCacheConc /\ [][NextCacheConc]_vars

Writing(i) == cc.w[i].pc \in {"dump", "close"}

AllSetsDone == \A i \in WorkerIds : cc.w[i].pc = "done"

\* C11: concurrent calls of ImageCache.set rewrite the file one at a time;
\* once all of them have returned the file is one complete snapshot equal
\* to the in-memory map; two workers that missed on the same key leave
\* exactly one of their two values stored under it.
C11_SetsMutuallyExclusive ==
  /\ cc.pc = "on" =>
        \A i, j \in WorkerIds : i # j => ~(Writing(i) /\ Writing(j))
  /\ (cc.pc = "on" /\ AllSetsDone) =>
        /\ cc.text = JsonDump(cc.mem)
        /\ \A i, j \in WorkerIds :
              (i # j /\ cc.w[i].hash = cc.w[j].hash) =>
                 DictGet(cc.mem, cc.w[i].hash) \in {cc.w[i].value, cc.w[j].value}

\* the state the file is left in by two overlapping rewrites
C11_TornStoreUnreachable ==
  (cc.pc = "on" /\ AllSetsDone) => Parses(cc.text)

----------------------------------------------------------------------------
(* SpecImage: one ImageHandler (cache enabled, table and formula handlers   *)
(* set, as ContentExtractor constructs it) asked for images by its caller,  *)
(* its coordinators running on pool workers.                                *)
(* ih is [pc, store, reqs, tasks, calls, writes]:                           *)
(*   reqs    one record per call of _processImageAsync: the future it       *)
(*           returned (fut, updated by its coordinator), the cache entry    *)
(*           found at the call (stored) and the future as returned          *)
(*   tasks   the callables given to llm.submit, with the coordinator's      *)
(*           position, category and result                                  *)
(*   calls   the llm.chat calls made: [by, req, what], by the task (0 the   *)
(*           caller's thread)                                               *)
(*   writes  the cache.set calls made: [by, req]                            *)

MaxRequests == 2

ImageBytes == { <<"a">>, <<"b">> }

\* where the image of the r-th request came from, <<document, page, index>>:
\* every request is for another document
originOf(r) == <<r, r + 1, 1>>

EmptyString == <<"", 0>>

\* data.get("type", "Photo") of the categorization answer; "None" for an
\* answer whose type is null
Categories == { "Table", "Math", "Formula", "Photo", "None" }

\* json.dumps(self.tableHandler.handleImage(imageBytes)): a table record,
\* or the error record of its except clauses
TableImageResults == { <<"table json", 1>>, <<"table error json", 1>> }

\* json.dumps(self.formulaHandler.handleImage(imageBytes))
FormulaImageResults == { <<"formula json", 1>>, <<"formula error json", 1>> }

\* _generateDescription: the text llm.chat returns
DescriptionResults == { <<"description", 1>>, EmptyString }

\* the "type" values the categorization answers with: the names of the
\* taxonomy, and a name outside it
CategoryNames ==
  { "Table", "Formula", "Math", "Chart", "Graph", "Diagram", "Technical",
    "Flowchart", "Text", "Photo", "Logo" }

\* str.lower() on these names
lower(category) ==
  CASE category = "Table"     -> "table"
    [] category = "Formula"   -> "formula"
    [] category = "Math"      -> "math"
    [] category = "Chart"     -> "chart"
    [] category = "Graph"     -> "graph"
    [] category = "Diagram"   -> "diagram"
    [] category = "Technical" -> "technical"
    [] category = "Flowchart" -> "flowchart"
    [] category = "Text"      -> "text"
    [] category = "Photo"     -> "photo"
    [] category = "Logo"      -> "logo"
    [] OTHER                  -> category

\* `word in cat` for the words _dispatch looks for in a lowered name: the
\* name itself, and "chart" inside "flowchart"
contains(cat, word) == cat = word \/ (word = "chart" /\ cat = "flowchart")

\* _dispatch, the chain of substring tests in the order of the code: the
\* handler delegated to ("table", "formula"; the extractor constructs the
\* image handler with both) or the prompt of the description call
branch(cat) ==
  IF contains(cat, "table") THEN "table"
  ELSE IF contains(cat, "math") \/ contains(cat, "formula") THEN "formula"
  ELSE IF contains(cat, "chart") \/ contains(cat, "graph") THEN "DESCRIBE_CHART_PROMPT"
  ELSE IF contains(cat, "diagram") \/ contains(cat, "technical") THEN "DESCRIBE_DIAGRAM_PROMPT"
  ELSE IF contains(cat, "flowchart") THEN "DESCRIBE_FLOWCHART_PROMPT"
  ELSE IF contains(cat, "text") THEN "DESCRIBE_TEXT_IMAGE_PROMPT"
  ELSE "DESCRIBE_PHOTO_PROMPT"

\* mutant: every image is described as a photo
dispatchDescribeAll(category) ==
  [what |-> "DESCRIBE_PHOTO_PROMPT", results |-> DescriptionResults]

\* _dispatch: the handler the category goes to, and what it can return
dispatch(category) ==
  LET to == branch(lower(category))
  IN  [what |-> to,
       results |-> CASE to = "table"   -> TableImageResults
                     [] to = "formula" -> FormulaImageResults
                     [] OTHER          -> DescriptionResults]

\* self.llm.chat(...): a synchronous call, made on the thread that calls it
chat(caller) == caller

\* mutant: categorization and dispatch submitted as two chained tasks
submitChained(req) ==
  << [req |-> req, pc |-> "categorize", category |-> "", local |-> None, after |-> 0],
     [req |-> req, pc |-> "dispatch", category |-> "Photo", local |-> None, after |-> 1] >>

\* self.llm.submit(coordinator): the tasks given to the pool for request req
submit(req) ==
  << [req |-> req, pc |-> "categorize", category |-> "", local |-> None, after |-> 0] >>

\* what an earlier run may have left in the cache
ImageStores ==
  { <<>>,
    << <<getImageHash(<<"a">>), <<"description", 2>>>> >>,
    << <<getImageHash(<<"a">>), EmptyString>> >> }

InitImage ==
  /\ \E m \in ImageStores :
        ih = [pc |-> "on", store |-> [mem |-> m, file |-> saveCache(m)],
              reqs |-> <<>>, tasks |-> <<>>, calls |-> {}, writes |-> {}]
  /\ iou = IouIdle
  /\ nms = NmsIdle
  /\ cache = CacheIdle
  /\ cc = Off /\ pool = Off /\ tbl = Off /\ fh = Off
  /\ main = MainIdle /\ doc = <<>> /\ analyzed = <<>> /\ meta = <<>>
  /\ imageFutures = <<>> /\ futures = <<>> /\ store = EmptyStore
  /\ results = <<>>

ImageUnchanged ==
  UNCHANGED <<iou, nms, cache, pipeVars, cc, pool, tbl, fh>>

\* the caller: _processImageAsync(imageBytes)
ProcessImageAsync ==
  /\ ih.pc = "on"
  /\ Len(ih.reqs) < MaxRequests
  /\ \E b \in ImageBytes :
        LET r == Len(ih.reqs) + 1
            f == processImageAsync(ih.store, b, originOf(r))
        IN  ih' = [ih EXCEPT
                     !.reqs = Append(@, [fut |-> f, returned |-> f,
                                         stored |-> get(ih.store, getImageHash(b))]),
                     !.tasks = IF f.state = "pending" THEN @ \o submit(r) ELSE @]
  /\ ImageUnchanged

\* coordinator, step 1: _categorize (one llm.chat call); an exception of
\* the call goes to future.set_exception
CoordinatorCategorize(t) ==
  /\ ih.pc = "on"
  /\ ih.tasks[t].pc = "categorize"
  /\ LET r == ih.tasks[t].req
         called == ih.calls \cup {[by |-> chat(t), req |-> r, what |-> "categorize"]}
     IN  \/ \E c \in Categories :
              ih' = [ih EXCEPT !.calls = called,
                               !.tasks[t].category = c,
                               !.tasks[t].pc = "dispatch"]
         \/ ih' = [ih EXCEPT !.calls = called,
                             !.tasks[t].pc = "finished",
                             !.reqs[r].fut.state = "exception"]
  /\ ImageUnchanged

\* coordinator, step 2: _dispatch; category.lower() raises on a category
\* that is no string, _generateDescription lets the exception of llm.chat
\* through, handleImage of the table and formula handlers catches it
CoordinatorDispatch(t) ==
  /\ ih.pc = "on"
  /\ ih.tasks[t].pc = "dispatch"
  /\ IF ih.tasks[t].after = 0 THEN TRUE
     ELSE ih.tasks[ih.tasks[t].after].pc = "finished"
  /\ LET r == ih.tasks[t].req
         to == dispatch(ih.tasks[t].category)
         called == ih.calls \cup {[by |-> chat(t), req |-> r, what |-> to.what]}
     IN  IF ih.tasks[t].category = "None"
         THEN ih' = [ih EXCEPT !.tasks[t].pc = "finished",
                               !.reqs[r].fut.state = "exception"]
         ELSE \/ \E v \in to.results :
                    ih' = [ih EXCEPT !.calls = called,
                                     !.tasks[t].local = v,
                                     !.tasks[t].pc = "cache"]
              \/ /\ to.what \notin {"table", "formula"}
                 /\ ih' = [ih EXCEPT !.calls = called,
                                     !.tasks[t].pc = "finished",
                                     !.reqs[r].fut.state = "exception"]
  /\ ImageUnchanged

\* coordinator, step 3: self.cache.set(imageHash, result)
CoordinatorCacheSet(t) ==
  /\ ih.pc = "on"
  /\ ih.tasks[t].pc = "cache"
  /\ LET r == ih.tasks[t].req
     IN  ih' = [ih EXCEPT !.store = set(@, ih.reqs[r].fut.hash, ih.tasks[t].local),
                          !.writes = @ \cup {[by |-> t, req |-> r]},
                          !.tasks[t].pc = "resolve"]
  /\ ImageUnchanged

\* coordinator, step 4: future.set_result(result)
CoordinatorSetResult(t) ==
  /\ ih.pc = "on"
  /\ ih.tasks[t].pc = "resolve"
  /\ LET r == ih.tasks[t].req
     IN  ih' = [ih EXCEPT !.reqs[r].fut.state = "result",
                          !.reqs[r].fut.value = ih.tasks[t].local,
                          !.tasks[t].pc = "finished"]
  /\ ImageUnchanged

\* the tasks in the pool
PoolTasks == IF ih.pc = "on" THEN 1..Len(ih.tasks) ELSE {}

NextImage ==
  \/ ProcessImageAsync
  \/ \E t \in PoolTasks : CoordinatorCategorize(t)
  \/ \E t \in PoolTasks : CoordinatorDispatch(t)
  \/ \E t \in PoolTasks : CoordinatorCacheSet(t)
  \/ \E t \in PoolTasks : CoordinatorSetResult(t)

SpecImage == InitImage /\ [][NextImage]_vars

TasksOf(r) == { t \in 1..Len(ih.tasks) : ih.tasks[t].req = r }

\* C12: a request that misses the cache has exactly one task in the pool;
\* every AI call and the cache write made for it are made by that task,
\* and no task waits for another task.
C12_OneTaskPerMiss ==
  ih.pc = "on" =>
    /\ \A r \in 1..Len(ih.reqs) :
          ih.reqs[r].returned.state = "pending" =>
             /\ Cardinality(TasksOf(r)) = 1
             /\ \A c \in ih.calls \cup ih.writes : c.req = r => c.by \in TasksOf(r)
             /\ ih.reqs[r].fut.state = "result" =>
                   /\ \E c \in ih.calls : c.req = r /\ c.what = "categorize"
                   /\ \E c \in ih.calls : c.req = r /\ c.what # "categorize"
                   /\ \E c \in ih.writes : c.req = r
    /\ \A t \in 1..Len(ih.tasks) : ih.tasks[t].after = 0

\* a missed image categorized as a table: both AI calls and the cache write
\* were made by its one task and its future carries the table handler's result
C12_Witness ==
  /\ ih.pc = "on"
  /\ \E r \in 1..Len(ih.reqs) :
        /\ ih.reqs[r].returned.state = "pending"
        /\ ih.reqs[r].fut.state = "result"
        /\ ih.reqs[r].fut.value \in TableImageResults
        /\ \E c \in ih.calls : c.req = r /\ c.what = "table"
        /\ DictGet(ih.store.mem, ih.reqs[r].fut.hash) = ih.reqs[r].fut.value

\* C13: whatever is stored in the cache under the hash of the image's
\* bytes comes back in an already resolved future; no task is submitted
\* and no AI call is made for the request.
C13_StoredValueIsHit ==
  ih.pc = "on" =>
    \A r \in 1..Len(ih.reqs) :
       ih.reqs[r].stored # None =>
          /\ ih.reqs[r].returned.state = "result"
          /\ ih.reqs[r].returned.value = ih.reqs[r].stored
          /\ TasksOf(r) = {}
          /\ \A c \in ih.calls : c.req # r

----------------------------------------------------------------------------
(* SpecPool, SpecPoolStart: the worker pool of the LLM service              *)
(* (services/LLM.py, constructed as LLM(maxWorkers=n)): submit(callable)    *)
(* returns a future, at most maxWorkers callables run at a time, the        *)
(* others wait in submission order.                                         *)
(* pool is [pc, maxWorkers, tasks]; a task is [state, future, busy]: state  *)
(* "queued", "running" or "done", future "pending", "result" or            *)
(* "exception", busy whether every worker was occupied at its submission.   *)

MaxWorkers == 2

MaxTasks == 4

TaskIds == 1..MaxTasks

Submitted(t) == pool.pc = "on" /\ t <= Len(pool.tasks)

Running == { t \in 1..Len(pool.tasks) : pool.tasks[t].state = "running" }

Queued == { t \in 1..Len(pool.tasks) : pool.tasks[t].state = "queued" }

TaskIs(t, states) ==
  IF Submitted(t) THEN pool.tasks[t].state \in states ELSE FALSE

FutureIs(t, states) ==
  IF Submitted(t) THEN pool.tasks[t].future \in states ELSE FALSE

\* task t was submitted while a worker was free for it
HadIdleWorker(t) ==
  IF Submitted(t)
  THEN ~pool.tasks[t].busy /\ Len(pool.tasks) <= pool.maxWorkers
  ELSE FALSE

\* mutant: a worker thread is started for every submission
idleWorkerAlways(p) == TRUE

\* mutant: one callable at a time
idleWorkerSerial(p) ==
  { t \in 1..Len(p.tasks) : p.tasks[t].state = "running" } = {}

\* a worker is free to take the next callable
idleWorker(p) ==
  Cardinality({ t \in 1..Len(p.tasks) : p.tasks[t].state = "running" }) < p.maxWorkers

\* LLM(maxWorkers=n)
InitPool ==
  /\ \E n \in 1..MaxWorkers : pool = [pc |-> "on", maxWorkers |-> n, tasks |-> <<>>]
  /\ iou = IouIdle
  /\ nms = NmsIdle
  /\ cache = CacheIdle
  /\ cc = Off /\ ih = Off /\ tbl = Off /\ fh = Off
  /\ main = MainIdle /\ doc = <<>> /\ analyzed = <<>> /\ meta = <<>>
  /\ imageFutures = <<>> /\ futures = <<>> /\ store = EmptyStore
  /\ results = <<>>

PoolUnchanged ==
  UNCHANGED <<iou, nms, cache, pipeVars, cc, ih, tbl, fh>>

\* llm.submit(callable): the callable is queued and a pending future returned
PoolSubmit ==
  /\ pool.pc = "on"
  /\ Len(pool.tasks) < MaxTasks
  /\ pool' = [pool EXCEPT !.tasks = Append(@, [state |-> "queued",
                                               future |-> "pending",
                                               busy |-> ~idleWorker(pool)])]
  /\ PoolUnchanged

\* a free worker takes the callable that has waited longest
PoolStart ==
  /\ pool.pc = "on"
  /\ Queued # {}
  /\ idleWorker(pool)
  /\ LET t == CHOOSE t \in Queued : \A u \in Queued : t <= u
     IN  pool' = [pool EXCEPT !.tasks[t].state = "running"]
  /\ PoolUnchanged

\* the callable of task t returns or raises: its future resolves and its
\* worker is free again
PoolFinish(t) ==
  /\ Submitted(t)
  /\ pool.tasks[t].state = "running"
  /\ \E outcome \in {"result", "exception"} :
        pool' = [pool EXCEPT !.tasks[t].state = "done",
                             !.tasks[t].future = outcome]
  /\ PoolUnchanged

NextPool ==
  \/ PoolSubmit
  \/ PoolStart
  \/ \E t \in TaskIds : PoolFinish(t)

\* every running callable eventually finishes, and a free worker takes
\* queued work
SpecPool ==
  /\ InitPool /\ [][NextPool]_vars
  /\ WF_vars(PoolStart)
  /\ \A t \in TaskIds : WF_vars(PoolFinish(t))

\* callables that may run forever: only the workers' taking of queued work
\* is fair
SpecPoolStart == InitPool /\ [][NextPool]_vars /\ WF_vars(PoolStart)

\* C14: at most maxWorkers submitted tasks execute at any time; a task
\* submitted while every worker is busy is queued, not failed; and, every
\* running task eventually finishing, every submitted task eventually runs
\* and its future resolves.
C14_BoundedPoolNeverRejects ==
  /\ [](pool.pc = "on" => Cardinality(Running) <= pool.maxWorkers)
  /\ [][(pool.pc = "on" /\ Len(pool'.tasks) = Len(pool.tasks) + 1) =>
           /\ pool'.tasks[Len(pool'.tasks)].state = "queued"
           /\ pool'.tasks[Len(pool'.tasks)].future = "pending"]_vars
  /\ \A t \in TaskIds :
        Submitted(t) ~> (TaskIs(t, {"done"}) /\ FutureIs(t, {"result", "exception"}))

\* a task submitted while every worker was busy has run and resolved
C14_Witness ==
  /\ pool.pc = "on"
  /\ \E t \in 1..Len(pool.tasks) :
        /\ pool.tasks[t].busy
        /\ pool.tasks[t].state = "done"
        /\ pool.tasks[t].future = "result"

\* C15: submit returns a pending future without waiting for the task, and
\* a task submitted while the pool has a free worker for it starts without
\* any other task having to finish.
C15_IdleWorkersRunConcurrently ==
  /\ [][(pool.pc = "on" /\ Len(pool'.tasks) = Len(pool.tasks) + 1) =>
           /\ pool'.tasks[Len(pool'.tasks)].future = "pending"
           /\ \A t \in 1..Len(pool.tasks) : pool'.tasks[t] = pool.tasks[t]]_vars
  /\ \A t \in TaskIds :
        HadIdleWorker(t) ~> TaskIs(t, {"running", "done"})

\* as many tasks as workers, all in progress at the same time
C15_Witness ==
  /\ pool.pc = "on"
  /\ pool.maxWorkers >= 2
  /\ Len(pool.tasks) = pool.maxWorkers
  /\ Running = 1..Len(pool.tasks)

----------------------------------------------------------------------------
(* Claims on SpecExtract: the second pass and the writes of content *)

\* the element types _getHandler maps to a handler of their own
DedicatedTypes ==
  { "text", "plain text", "title", "image", "figure", "table", "equation",
    "isolate_formula" }

\* the second pass has gone past element e of page m
SyncPassed(m, e) ==
  \/ main.pc \in {"join", "done"}
  \/ main.pc = "sync" /\ (m < main.i \/ (m = main.i /\ e < main.j))

\* C16: an element whose type has no handler of its own gets the content
\* '<UNHANDLED_ELEMENT>' in the second pass, which does not raise on it,
\* and is returned with that content.
C16_DefaultPlaceholder ==
  /\ \A m \in 1..Len(meta) : \A e \in 1..Len(meta[m].elems) :
        (meta[m].elems[e].type \notin DedicatedTypes /\ SyncPassed(m, e)) =>
           meta[m].elems[e].content = Unhandled
  /\ (main.pc = "raised" /\ main.error = "HandlerException") =>
        meta[main.i].elems[main.j].type \in DedicatedTypes
  /\ main.pc = "done" =>
        \A m \in 1..Len(results) : \A e \in 1..Len(results[m].elements) :
           results[m].elements[e].type \notin DedicatedTypes =>
              results[m].elements[e].content = Unhandled

\* a chart on a slide and a caption on a page, returned with the placeholder
C16_Witness ==
  /\ main.pc = "done"
  /\ \E m \in 1..Len(results) : \E e \in 1..Len(results[m].elements) :
        /\ results[m].elements[e].type \in {"chart", "figure_caption"}
        /\ results[m].elements[e].content = Unhandled

\* the futures recorded for element e of the page numbered num
RecordedFor(num, e) ==
  { n \in 1..Len(imageFutures) : imageFutures[n][1] = num /\ imageFutures[n][2] = e }

\* C17: in a completed run every returned element had its content assigned
\* exactly once, by the second pass if no future was recorded for it and by
\* the join pass if one was; no returned content is the initial None; type
\* and geometry are those of the analyzed element it was built from.
C17_ContentWrittenOnce ==
  /\ \A m \in 1..Len(meta) : \A e \in 1..Len(meta[m].elems) :
        meta[m].elems[e].writes <= 1
  /\ main.pc = "done" =>
        \A m \in 1..Len(results) :
           LET built == Built(analyzed[m].items, main.kind)
           IN  \A e \in 1..Len(results[m].elements) :
                  LET out == results[m].elements[e]
                      el == meta[m].elems[e]
                  IN  /\ el.writes = 1
                      /\ out.content = el.content
                      /\ out.content # None
                      /\ Cardinality(RecordedFor(results[m].num, e)) =
                           IF out.type \in AsyncTypes(main.kind) THEN 1 ELSE 0
                      /\ IF main.kind = "pdf"
                         THEN /\ out.type = built[e].class_name
                              /\ out.bbox = built[e].bbox
                              /\ out.confidence = built[e].conf
                         ELSE /\ out.type = built[e].classified_type
                              /\ out.position = built[e].position

\* a completed run over a page with an element written by the second pass
\* and an element written by the join pass
C17_Witness ==
  /\ main.pc = "done"
  /\ \E m \in 1..Len(results) : \E e, g \in 1..Len(results[m].elements) :
        /\ results[m].elements[e].type \notin AsyncTypes(main.kind)
        /\ results[m].elements[g].type \in AsyncTypes(main.kind)
        /\ RecordedFor(results[m].num, g) # {}
        /\ meta[m].elems[e].writes = 1
        /\ meta[m].elems[g].writes = 1

----------------------------------------------------------------------------
(* SpecFormula: FormulaHandler.handlePptx(shape, slideNum, filePath) on one *)
(* shape. fh is [pc, shape, llm, fileKnown, k, omml, attempts, calls,       *)
(* result]: k the layer about to run, omml what _extractOmml returned,      *)
(* attempts the layers whose extraction ran, calls the llm.chat calls made  *)
(* (neither is read by the code). Confidences are percentages.              *)

NoLatex == <<"None", 0>>

Texts == { "", " ", "x^2 + y = 5", "hello" }

\* str.strip() on the texts above
strip(text) == IF text = " " THEN "" ELSE text

\* _normalizeTextEquation
normalizeTextEquation(text) == strip(text)

\* simpleTextToLatex: None unless the text holds one of the strong
\* characters (=, ^, /, ...)
simpleTextToLatex(text) ==
  IF text = "x^2 + y = 5" THEN <<"latex heuristic", 1>> ELSE NoLatex

\* _extractOmml: the shape's XML when it contains 'm:oMath', else None
extractOmml(shape) == IF shape.markup = "m:oMath" THEN "xml" ELSE "None"

\* _extractOmmlFromSlide
extractOmmlFromSlide(fileKnown) == "None"

\* _ommlToLatex: (latex, mathml)
ommlToLatex(omml) == [latex |-> NoLatex, mathml |-> NoLatex]

\* _extractFormulaFromText: the answers of llm.chat are a LaTeX string, no
\* LaTeX, or an exception; without LaTeX from the client the heuristic decides
extractFormulaFromText(text) ==
  { [latex |-> <<"latex", 1>>, confidence |-> 90] } \cup
  { [latex |-> simpleTextToLatex(text),
     confidence |-> IF simpleTextToLatex(text) # NoLatex THEN 60 ELSE 0] }

\* _extractFormula: LaTeX with confidence 0.95, or none with 0.0 (also on
\* an unparseable answer and on an exception of llm.chat)
extractFormula ==
  { [latex |-> <<"latex", 2>>, confidence |-> 95],
    [latex |-> NoLatex, confidence |-> 0] }

\* mutant: the image OCR tried before the text inference
layersOcrFirst == << "omml", "omml_slide", "ocr", "text_llm" >>

\* the order in which handlePptx tries its layers
layers == << "omml", "omml_slide", "text_llm", "ocr" >>

Shapes == [markup : {"none", "m:oMath"}, has_text_frame : BOOLEAN,
           text : Texts, image : BOOLEAN]

NoFormula == [source |-> "", latex |-> NoLatex, mathml |-> NoLatex,
              confidence |-> 0, error |-> ""]

InitFormula ==
  /\ \E s \in Shapes, l \in BOOLEAN, f \in BOOLEAN :
        /\ (~s.has_text_frame => s.text = "")
        /\ fh = [pc |-> "layer", shape |-> s, llm |-> l, fileKnown |-> f, k |-> 1,
                 omml |-> "None", attempts |-> <<>>, calls |-> <<>>,
                 result |-> NoFormula]
  /\ iou = IouIdle
  /\ nms = NmsIdle
  /\ cache = CacheIdle
  /\ cc = Off /\ ih = Off /\ pool = Off /\ tbl = Off
  /\ main = MainIdle /\ doc = <<>> /\ analyzed = <<>> /\ meta = <<>>
  /\ imageFutures = <<>> /\ futures = <<>> /\ store = EmptyStore
  /\ results = <<>>

FormulaUnchanged ==
  UNCHANGED <<iou, nms, cache, pipeVars, cc, ih, pool, tbl>>

AtLayer(name) == fh.pc = "layer" /\ fh.k <= Len(layers) /\ layers[fh.k] = name

Return(r) == [fh EXCEPT !.pc = "returned", !.result = r]

\* Layer 1: the shape's own OMML, converted
LayerOmml ==
  /\ AtLayer("omml")
  /\ LET omml == extractOmml(fh.shape)
         conv == ommlToLatex(omml)
         tried == [fh EXCEPT !.omml = omml, !.k = @ + 1,
                             !.attempts = IF omml # "None" THEN Append(@, "omml") ELSE @]
     IN  IF omml # "None" /\ (conv.latex # NoLatex \/ conv.mathml # NoLatex)
         THEN fh' = [tried EXCEPT !.pc = "returned",
                        !.result = [source |-> "omml", latex |-> conv.latex,
                                    mathml |-> conv.mathml,
                                    confidence |-> IF conv.latex # NoLatex THEN 100 ELSE 80,
                                    error |-> "None"]]
         ELSE fh' = tried
  /\ FormulaUnchanged

\* Layer 2a: OMML searched in the slide's XML when the shape had none
LayerOmmlSlide ==
  /\ AtLayer("omml_slide")
  /\ LET runs == fh.omml = "None" /\ fh.fileKnown
         ommlSlide == IF runs THEN extractOmmlFromSlide(fh.fileKnown) ELSE "None"
         conv == ommlToLatex(ommlSlide)
         tried == [fh EXCEPT !.k = @ + 1,
                             !.attempts = IF runs THEN Append(@, "omml_slide") ELSE @]
     IN  IF ommlSlide # "None" /\ (conv.latex # NoLatex \/ conv.mathml # NoLatex)
         THEN fh' = [tried EXCEPT !.pc = "returned",
                        !.result = [source |-> "omml_slide", latex |-> conv.latex,
                                    mathml |-> conv.mathml,
                                    confidence |-> IF conv.latex # NoLatex THEN 100 ELSE 80,
                                    error |-> "None"]]
         ELSE fh' = tried
  /\ FormulaUnchanged

\* Layer 2b: text-to-LaTeX by the AI client when the shape has text
LayerTextLlm ==
  /\ AtLayer("text_llm")
  /\ LET rawText == normalizeTextEquation(fh.shape.text)
     IN  IF fh.shape.has_text_frame /\ fh.llm /\ rawText # ""
         THEN \E textRes \in extractFormulaFromText(rawText) :
                LET tried == [fh EXCEPT !.k = @ + 1,
                                        !.attempts = Append(@, "text_llm"),
                                        !.calls = Append(@, "text")]
                IN  IF textRes.latex # NoLatex
                    THEN fh' = [tried EXCEPT !.pc = "returned",
                                   !.result = [source |-> "text_llm",
                                               latex |-> textRes.latex,
                                               mathml |-> NoLatex,
                                               confidence |-> textRes.confidence,
                                               error |-> "None"]]
                    ELSE fh' = tried
         ELSE fh' = [fh EXCEPT !.k = @ + 1]
  /\ FormulaUnchanged

\* Layer 2c: equation OCR of the shape's image by the AI client; a shape
\* without image raises AttributeError, which is passed over
LayerOcr ==
  /\ AtLayer("ocr")
  /\ IF fh.llm /\ fh.shape.image
     THEN \E res \in extractFormula :
            fh' = [fh EXCEPT !.pc = "returned",
                             !.attempts = Append(@, "ocr"),
                             !.calls = Append(@, "ocr"),
                             !.result = [source |-> "ocr", latex |-> res.latex,
                                         mathml |-> NoLatex,
                                         confidence |-> res.confidence,
                                         error |-> IF res.latex # NoLatex THEN "None"
                                                   ELSE "no_latex"]]
     ELSE fh' = [fh EXCEPT !.k = @ + 1]
  /\ FormulaUnchanged

\* no layer returned
LayersFailed ==
  /\ fh.pc = "layer"
  /\ fh.k > Len(layers)
  /\ fh' = Return([source |-> "failed", latex |-> NoLatex, mathml |-> NoLatex,
                   confidence |-> 0, error |-> "No extraction method succeeded"])
  /\ FormulaUnchanged

NextFormula ==
  LayerOmml \/ LayerOmmlSlide \/ LayerTextLlm \/ LayerOcr \/ LayersFailed

SpecFormula == InitFormula /\ [][NextFormula]_vars

Index(seq, x) ==
  IF \E i \in 1..Len(seq) : seq[i] = x
  THEN CHOOSE i \in 1..Len(seq) : seq[i] = x
  ELSE 0

\* C19: on a shape whose own markup contains embedded math, handlePptx
\* returns the first layer's result: source 'omml', confidence 1.0 with
\* LaTeX and 0.8 with MathML only, and no AI call has been made.
C19_OmmlFirstLayer ==
  (fh.pc = "returned" /\ fh.shape.markup = "m:oMath") =>
     /\ fh.result.source = "omml"
     /\ fh.result.confidence = IF fh.result.latex # NoLatex THEN 100 ELSE 80
     /\ fh.result.latex # NoLatex \/ fh.result.mathml # NoLatex
     /\ fh.calls = <<>>

TextCase ==
  /\ fh.pc \in {"layer", "returned"}
  /\ fh.shape.markup = "none"
  /\ fh.shape.has_text_frame
  /\ normalizeTextEquation(fh.shape.text) # ""
  /\ fh.llm

\* C20: on a shape with text (not blank), no math markup and an AI client,
\* the text inference is attempted before any image OCR, the call returns
\* only after the text inference was attempted, and when the text layer
\* yields LaTeX the OCR is never invoked.
C20_TextBeforeOcr ==
  TextCase =>
    /\ Index(fh.calls, "ocr") # 0 =>
          (Index(fh.calls, "text") # 0 /\ Index(fh.calls, "text") < Index(fh.calls, "ocr"))
    /\ fh.pc = "returned" => Index(fh.attempts, "text_llm") # 0
    /\ (fh.pc = "returned" /\ fh.result.source = "text_llm") =>
          /\ fh.result.latex # NoLatex
          /\ Index(fh.calls, "ocr") = 0
    /\ (fh.pc = "returned" /\ fh.result.source # "text_llm") =>
          simpleTextToLatex(normalizeTextEquation(fh.shape.text)) = NoLatex

\* both outcomes of the text case: the text layer answered and no OCR was
\* made (the spec's example text), or it found nothing and the OCR followed
C20_Witness ==
  /\ TextCase
  /\ fh.pc = "returned"
  /\ fh.shape.image
  /\ \/ /\ fh.shape.text = "x^2 + y = 5"
        /\ fh.result.source = "text_llm"
        /\ fh.calls = << "text" >>
     \/ /\ fh.shape.text = "hello"
        /\ fh.result.source = "ocr"
        /\ fh.calls = << "text", "ocr" >>

----------------------------------------------------------------------------
(* SpecTable: TableHandler._buildResult (with _normalizeData) applied to    *)
(* lists of rows. A cell is a string; "<7>" stands for a cell that is not   *)
(* a string (the number 7).                                                 *)

MaxRows == 2

MaxCols == 3

Cells == { "a", " b ", "<7>" }

\* cell.strip() if isinstance(cell, str) else ""
cleanCell(cell) ==
  CASE cell = " b " -> "b"
    [] cell = "<7>" -> ""
    [] OTHER -> cell

\* mutant: the padding put before the row's cells
padLeft(row, maxCols) ==
  [j \in 1..maxCols |-> IF j <= maxCols - Len(row) THEN ""
                        ELSE row[j - (maxCols - Len(row))]]

\* row + [""] * (maxCols - len(row))
padRight(row, maxCols) ==
  [j \in 1..maxCols |-> IF j <= Len(row) THEN row[j] ELSE ""]

RECURSIVE MaxLen(_)
MaxLen(rows) ==
  IF rows = <<>> THEN 0
  ELSE Max(Len(rows[Len(rows)]), MaxLen(SubSeq(rows, 1, Len(rows) - 1)))

\* _normalizeData
normalizeData(data) ==
  IF data = <<>> THEN <<>>
  ELSE LET cleaned == [i \in 1..Len(data) |->
                         [j \in 1..Len(data[i]) |-> cleanCell(data[i][j])]]
           maxCols == MaxLen(cleaned)
       IN  IF maxCols = 0 THEN cleaned
           ELSE [i \in 1..Len(cleaned) |-> padRight(cleaned[i], maxCols)]

\* _buildResult: rows, columns and data of the result
buildResult(data) ==
  LET normalized == normalizeData(data)
  IN  [type |-> "table", rows |-> Len(normalized), columns |-> MaxLen(normalized),
       data |-> normalized]

NoTable == [type |-> "", rows |-> 0, columns |-> 0, data |-> <<>>]

InitTable ==
  /\ \E n \in 0..MaxRows : \E data \in [1..n -> SeqsUpTo(Cells, MaxCols)] :
        tbl = [pc |-> "call", input |-> data, result |-> NoTable]
  /\ iou = IouIdle
  /\ nms = NmsIdle
  /\ cache = CacheIdle
  /\ cc = Off /\ ih = Off /\ pool = Off /\ fh = Off
  /\ main = MainIdle /\ doc = <<>> /\ analyzed = <<>> /\ meta = <<>>
  /\ imageFutures = <<>> /\ futures = <<>> /\ store = EmptyStore
  /\ results = <<>>

\* self._buildResult(data, bbox, source)
CallBuildResult ==
  /\ tbl.pc = "call"
  /\ tbl' = [tbl EXCEPT !.pc = "returned", !.result = buildResult(tbl.input)]
  /\ UNCHANGED <<iou, nms, cache, pipeVars, cc, ih, pool, fh>>

NextTable == CallBuildResult

SpecTable == InitTable /\ [][NextTable]_vars

\* C18: the result has one grid row per input row, columns is the largest
\* input row width, every grid row has exactly that many cells, the cells
\* of an input row stay in their places and the cells added to a shorter
\* row are empty strings at its right end.
C18_TableNormalized ==
  tbl.pc = "returned" =>
    LET in == tbl.input
        out == tbl.result
    IN  /\ out.rows = Len(in)
        /\ Len(out.data) = Len(in)
        /\ \A i \in 1..Len(in) : Len(in[i]) <= out.columns
        /\ in # <<>> => \E i \in 1..Len(in) : Len(in[i]) = out.columns
        /\ in = <<>> => out.columns = 0
        /\ \A i \in 1..Len(in) :
              /\ Len(out.data[i]) = out.columns
              /\ \A j \in 1..out.columns :
                    out.data[i][j] = IF j <= Len(in[i]) THEN cleanCell(in[i][j]) ELSE ""

\* rows of widths 3 and 1, as in [[a,b,c],[d]]: 2 rows, 3 columns, the
\* second row padded with two empty strings
C18_Witness ==
  /\ tbl.pc = "returned"
  /\ tbl.input = << <<"a", " b ", "a">>, <<"a">> >>
  /\ tbl.result.rows = 2
  /\ tbl.result.columns = 3
  /\ tbl.result.data = << <<"a", "b", "a">>, <<"a", "", "">> >>

----------------------------------------------------------------------------
(* Further claims on SpecFormula *)

\* C21: when handlePptx returns without LaTeX and without MathML, whatever
\* layers ran, the record has the source 'failed', confidence 0.0 and an
\* error that is not None.
C21_FailedRecord ==
  (fh.pc = "returned" /\ fh.result.latex = NoLatex /\ fh.result.mathml = NoLatex) =>
     /\ fh.result.source = "failed"
     /\ fh.result.confidence = 0
     /\ fh.result.error # "None"

\* C30: when the file path and slide number are known and the first layer
\* did not return, the slide-level markup search is attempted before any
\* AI-based layer: an AI call is only ever made after it, and the call does
\* not return from a later layer without it.
C30_SlideSearchBeforeAi ==
  (fh.pc \in {"layer", "returned"} /\ fh.fileKnown) =>
     /\ fh.calls # <<>> => Index(fh.attempts, "omml_slide") # 0
     /\ (fh.pc = "returned" /\ fh.result.source # "omml") =>
           Index(fh.attempts, "omml_slide") # 0


\* C31: a result of the text layer (source 'text_llm', with LaTeX) has
\* confidence 0.9.
C31_TextConfidence ==
  (fh.pc = "returned" /\ fh.result.source = "text_llm" /\ fh.result.latex # NoLatex) =>
     fh.result.confidence = 90

----------------------------------------------------------------------------
(* Further claims on Spec and SpecExtract *)

\* the detector emitted nothing for page p, or only ignored-class detections
EmptyPage(p) == p \in 1..Len(doc) /\ detect(doc[p]) = <<>>

\* C22: for a page without detections, or with ignored-class detections
\* only, suppression returns the empty list, no task is submitted to the
\* pool for the page, nothing is raised on its account, and extraction
\* returns the page with an empty element list.
C22_EmptyPage ==
  main.router =>
    /\ \A p \in 1..Len(doc) : EmptyPage(p) =>
          /\ removeDuplicates(detect(doc[p]), IouThreshold) = [raised |-> FALSE, keep |-> <<>>]
          /\ p <= Len(analyzed) => analyzed[p] = [num |-> p, items |-> <<>>]
          /\ \A r \in 1..Len(imageFutures) : imageFutures[r][1] # p
          /\ \A f \in 1..Len(futures) : futures[f].origin[1] # p
          /\ (main.pc = "raised" /\ main.error = "ZeroDivisionError") => main.i # p
          /\ main.pc \in {"ids", "done"} =>
                \E m \in 1..Len(results) :
                   /\ results[m].num = p
                   /\ results[m].elements = <<>>
                   /\ \A n \in 1..Len(results) : results[n].num = p => n = m
    /\ (\A p \in 1..Len(doc) : EmptyPage(p)) =>
          /\ main.pc # "raised"
          /\ futures = <<>>

C22_Witness ==
  /\ main.router
  /\ main.pc = "done"
  /\ \E p \in 1..Len(doc) : EmptyPage(p) /\ doc[p] # <<>>
  /\ \E p \in 1..Len(doc) : doc[p] = <<>>
  /\ \A m \in 1..Len(results) : results[m].elements = <<>>
  /\ Len(results) = Len(doc)

----------------------------------------------------------------------------
(* Further claims on SpecNms *)

\* the input is A (conf 0.9, [0,0,10,10]) and B (conf 0.8, [1,1,9,9]) of one
\* class, in either order; their IoU is 64/100
ExampleAB ==
  /\ Len(nms.input) = 2
  /\ nms.input[1].class_name = nms.input[2].class_name
  /\ \E a, b \in 1..2 :
        /\ nms.input[a].bbox = <<0, 0, 10, 10>> /\ nms.input[a].conf = 90
        /\ nms.input[b].bbox = <<1, 1, 9, 9>> /\ nms.input[b].conf = 80

\* the position of A in the example input
ExampleA == CHOOSE a \in 1..2 : nms.input[a].conf = 90

\* C23: removeDuplicates is the greedy suppression in confidence order: a
\* detection is kept if and only if no other kept detection of its class with
\* confidence at least its own has an IoU with it above the threshold; every
\* removed detection overlaps a kept one of its class above the threshold
\* (the kept set is maximal); A and B of the example are both kept at
\* threshold 0.7 and only A is kept at threshold 0.5.
C23_GreedySuppression ==
  /\ Returned =>
       /\ \A i \in 1..Len(nms.input) :
             (i \in KeptSrc) <=>
                ~ \E k \in 1..Len(nms.first.keep) :
                     /\ nms.first.keep[k].src # i
                     /\ nms.first.keep[k].class_name = nms.input[i].class_name
                     /\ nms.first.keep[k].conf >= nms.input[i].conf
                     /\ Above(nms.input[i], nms.first.keep[k], nms.thr)
       /\ \A i \in 1..Len(nms.input) :
             i \notin KeptSrc =>
                \E k \in 1..Len(nms.first.keep) :
                   /\ nms.first.keep[k].class_name = nms.input[i].class_name
                   /\ Above(nms.input[i], nms.first.keep[k], nms.thr)
       /\ \A k \in 1..Len(nms.first.keep) :
             /\ nms.first.keep[k].src \in 1..Len(nms.input)
             /\ nms.first.keep[k] = nms.input[nms.first.keep[k].src]
  /\ (nms.pc \in {"once", "twice"} /\ ExampleAB) =>
       /\ ~nms.first.raised
       /\ computeIou(<<0, 0, 10, 10>>, <<1, 1, 9, 9>>) = <<64, 100>>
       /\ nms.thr = <<7, 10>> => KeptSrc = {1, 2}
       /\ nms.thr = <<1, 2>> => KeptSrc = {ExampleA}

\* the example at threshold 0.5 with B first in the input: only A is kept
C23_Witness ==
  /\ Returned
  /\ ExampleAB
  /\ nms.input[1].conf = 80
  /\ nms.thr = <<1, 2>>
  /\ Len(nms.first.keep) = 1
  /\ nms.first.keep[1].conf = 90

\* the elements of page p of the analyzed input that go to the image pipeline
AsyncItems(p) ==
  { e \in 1..Len(analyzed[p].items) :
      IF main.kind = "pdf"
      THEN analyzed[p].items[e].class_name \in AsyncTypes("pdf")
      ELSE /\ analyzed[p].items[e].classified_type \in AsyncTypes("pptx")
           /\ analyzed[p].items[e].found }

\* every image of page p has been handed to the image pipeline
AllSubmitted(p) ==
  Cardinality({ n \in 1..Len(imageFutures) : imageFutures[n][1] = analyzed[p].num })
    = Cardinality(AsyncItems(p))

\* every element that is no image has its content from its handler
AllSyncReturned ==
  /\ Len(meta) = Len(analyzed)
  /\ \A m \in 1..Len(meta) : \A e \in 1..Len(meta[m].elems) :
        meta[m].elems[e].type \notin AsyncTypes(main.kind) =>
           meta[m].elems[e].writes = 1

\* a step in which a synchronous handler is invoked: it writes the content
\* of an element that is no image, or its exception leaves extract
SyncStep ==
  \/ /\ Len(meta') = Len(meta)
     /\ \E m \in 1..Len(meta) : \E e \in 1..Len(meta[m].elems) :
           /\ meta[m].elems[e].type \notin AsyncTypes(main.kind)
           /\ meta'[m].elems[e].writes # meta[m].elems[e].writes
  \/ main.pc # "raised" /\ main'.pc = "raised" /\ main'.error = "HandlerException"

\* a step in which future.result() returns or raises
WaitStep ==
  \/ main'.k # main.k
  \/ /\ Len(meta') = Len(meta)
     /\ \E m \in 1..Len(meta) : \E e \in 1..Len(meta[m].elems) :
           /\ meta[m].elems[e].type \in AsyncTypes(main.kind)
           /\ meta'[m].elems[e].writes # meta[m].elems[e].writes
  \/ /\ main.pc # "raised" /\ main'.pc = "raised"
     /\ main'.error \in {"FutureException", "IndexError"}

\* C24: the passes of the dispatcher are ordered: a synchronous handler is
\* invoked only when every image task of every page has been submitted, a
\* future is waited on only in the join pass and only when every synchronous
\* handler has returned, and the submission pass waits on no future; the
\* passes follow one another as submit, sync, join.
C24_PassesOrdered ==
  [][ /\ SyncStep =>
           /\ main.pc = "sync"
           /\ \A p \in 1..Len(analyzed) : AllSubmitted(p)
      /\ WaitStep =>
           /\ main.pc = "join"
           /\ AllSyncReturned
           /\ \A p \in 1..Len(analyzed) : AllSubmitted(p)
      /\ main.pc = "submit" => (~WaitStep /\ ~SyncStep)
      /\ main'.pc # main.pc =>
           \/ main.pc = "submit" /\ main'.pc = "sync"
           \/ main.pc = "sync" /\ main'.pc \in {"join", "raised"}
           \/ main.pc = "join" /\ main'.pc \in {"done", "raised"}
    ]_vars

\* the join pass about to wait on a future that is still pending, for a
\* page whose other element already has its content from its handler
C24_Witness ==
  /\ main.pc = "join"
  /\ main.k = 1
  /\ Len(imageFutures) >= 1
  /\ futures[imageFutures[1][3]].state = "pending"
  /\ \E m \in 1..Len(meta) :
        /\ meta[m].num = imageFutures[1][1]
        /\ \E e \in 1..Len(meta[m].elems) :
              /\ meta[m].elems[e].type \notin AsyncTypes(main.kind)
              /\ meta[m].elems[e].writes = 1

----------------------------------------------------------------------------
(* Further claims on SpecImage *)

\* the records a category is delegated for, {} for a category described
DelegatedResults(category) ==
  CASE lower(category) = "table" -> TableImageResults
    [] lower(category) \in {"math", "formula"} -> FormulaImageResults
    [] OTHER -> {}

----------------------------------------------------------------------------
(* SpecDispatch: ImageHandler._categorize and ._dispatch on one image, for  *)
(* every answer of the categorization call. ih is [pc, bytes, answer,       *)
(* category, what, result]: what the handler or prompt _dispatch used.      *)

\* the answers of the categorization call: parses is FALSE for a text that
\* json.loads rejects; type is the value under "type", "absent" without
\* that key, "None" for null
Answers ==
  { [parses |-> TRUE, type |-> c] : c \in CategoryNames \cup {"absent", "None"} }
    \cup { [parses |-> FALSE, type |-> "absent"] }

\* _categorize: data.get("type", "Photo"), "Photo" when parsing fails
categorize(answer) ==
  IF answer.parses /\ answer.type # "absent" THEN answer.type ELSE "Photo"

InitDispatch ==
  /\ \E b \in ImageBytes, a \in Answers :
        ih = [pc |-> "categorize", bytes |-> b, answer |-> a, category |-> "",
              what |-> "", result |-> None]
  /\ iou = IouIdle
  /\ nms = NmsIdle
  /\ cache = CacheIdle
  /\ cc = Off /\ pool = Off /\ tbl = Off /\ fh = Off
  /\ main = MainIdle /\ doc = <<>> /\ analyzed = <<>> /\ meta = <<>>
  /\ imageFutures = <<>> /\ futures = <<>> /\ store = EmptyStore
  /\ results = <<>>

\* category = self._categorize(imageBytes); llm.chat may raise
DispatchCategorize ==
  /\ ih.pc = "categorize"
  /\ \/ ih' = [ih EXCEPT !.pc = "dispatch", !.category = categorize(ih.answer)]
     \/ ih' = [ih EXCEPT !.pc = "raised"]
  /\ ImageUnchanged

\* result = self._dispatch(imageBytes, category, context)
DispatchCall ==
  /\ ih.pc = "dispatch"
  /\ LET to == dispatch(ih.category)
     IN  IF ih.category = "None"
         THEN ih' = [ih EXCEPT !.pc = "raised"]
         ELSE \/ \E v \in to.results :
                    ih' = [ih EXCEPT !.pc = "returned", !.what = to.what, !.result = v]
              \/ /\ to.what \notin {"table", "formula"}
                 /\ ih' = [ih EXCEPT !.pc = "raised", !.what = to.what]
  /\ ImageUnchanged

NextDispatch == DispatchCategorize \/ DispatchCall

SpecDispatch == InitDispatch /\ [][NextDispatch]_vars

\* the description the taxonomy assigns to a category that is not delegated
OwnPrompt(category) ==
  CASE lower(category) \in {"chart", "graph"}       -> "DESCRIBE_CHART_PROMPT"
    [] lower(category) \in {"diagram", "technical"} -> "DESCRIBE_DIAGRAM_PROMPT"
    [] lower(category) = "flowchart"                -> "DESCRIBE_FLOWCHART_PROMPT"
    [] lower(category) = "text"                     -> "DESCRIBE_TEXT_IMAGE_PROMPT"
    [] OTHER                                        -> "DESCRIBE_PHOTO_PROMPT"

\* C26: a category that is not delegated is described with its own prompt:
\* the chart description for chart and graph, the diagram description for
\* diagram and technical, the flowchart description for flowchart, the text
\* description for text, the photo description for anything else and for an
\* answer that does not parse.
C26_OwnDescription ==
  (ih.pc = "returned" /\ lower(ih.category) \notin {"table", "math", "formula"}) =>
     ih.what = OwnPrompt(ih.category)

----------------------------------------------------------------------------
(* SpecTableHandler: the entry points of TableHandler, handlePptx on a     *)
(* shape, handlePdf on a page region and handleImage on image bytes.       *)
(* tbl is [pc, entry, flag, apiKey, llmClient, parsed, response, calls,    *)
(* result]: flag, apiKey and llmClient what the handler was constructed    *)
(* with, parsed what _extractWithPdfplumber returned, response the AI      *)
(* answer used, calls the extractors invoked, in order (not read by the    *)
(* code). A dict is a record of all fields with keys the keys it has.      *)

\* the rows a parser or an AI answer may hold; "<7>" is a cell that is no
\* string (None, a number)
TableRows ==
  { <<>>, <<"a">>, <<"b">>, <<"a", "b">>, <<"a", " b ">>, <<"a", "<7>">> }

\* lists of at most MaxRows rows
Grids == UNION { [1..n -> TableRows] : n \in 0..MaxRows }

\* shape.table of a slide: a grid of cells, every row as wide as the table
PptxTables ==
  UNION { [1..n -> [1..c -> {"a", " b "}]] : n \in 1..MaxRows, c \in 1..2 }

NoFields ==
  [keys |-> {}, type |-> "", rows |-> 0, columns |-> 0, data |-> <<>>,
   markdown |-> <<>>, source |-> "", error |-> "", description |-> ""]

\* {'error': str(e), 'source': source}
ErrorRecord(error, source) ==
  [NoFields EXCEPT !.keys = {"error", "source"}, !.error = error, !.source = source]

\* _toMarkdown: the lines of the markdown table, each the cells joined
toMarkdown(data) ==
  IF data = <<>> THEN <<>>
  ELSE LET headerRow == data[1]
           wide(row) == IF Len(row) >= Len(headerRow) THEN row
                        ELSE padRight(row, Len(headerRow))
       IN  << headerRow, [j \in 1..Len(headerRow) |-> "---"] >>
             \o [i \in 1..(Len(data) - 1) |-> wide(data[i + 1])]

\* _buildResult with its markdown and source
buildResultFrom(data, source) ==
  LET b == buildResult(data)
  IN  [NoFields EXCEPT
         !.keys = {"type", "rows", "columns", "data", "markdown", "source"},
         !.type = b.type, !.rows = b.rows, !.columns = b.columns,
         !.data = b.data, !.markdown = toMarkdown(b.data), !.source = source]

\* handlePptx on a shape with a table
pptxResult(table) ==
  LET data == [i \in 1..Len(table) |->
                 [j \in 1..Len(table[i]) |-> strip(table[i][j])]]
  IN  [NoFields EXCEPT
         !.keys = {"type", "rows", "columns", "data", "markdown", "source"},
         !.type = "table", !.rows = Len(table), !.columns = Len(table[1]),
         !.data = data, !.markdown = toMarkdown(data), !.source = "pptx"]

\* what cropped.extract_tables() gives: it raises, finds no table, or
\* finds tables of which the first is table
ParserOutcomes ==
  { [kind |-> "raises", table |-> <<>>], [kind |-> "no tables", table |-> <<>>] }
    \cup { [kind |-> "tables", table |-> g] : g \in Grids }

\* _extractWithPdfplumber: NoFields stands for None
extractWithPdfplumber(o) ==
  IF o.kind # "tables" \/ o.table = <<>> THEN NoFields
  ELSE buildResultFrom(o.table, "pdfplumber")

\* `result and result.get('data')`
parserSucceeded(result) == result.keys # {} /\ result.data # <<>>

\* the answers of the table prompt: llm.chat raises; a text that is no JSON
\* object with a "rows" key (rowsKey FALSE); or an object with rows and
\* headers, <<>> for headers absent or empty
Responses ==
  { [kind |-> "raises", rowsKey |-> FALSE, rows |-> <<>>, headers |-> <<>>] }
    \cup { [kind |-> "answer", rowsKey |-> FALSE, rows |-> <<>>, headers |-> h] :
             h \in TableRows }
    \cup { [kind |-> "answer", rowsKey |-> TRUE, rows |-> g, headers |-> h] :
             g \in Grids, h \in TableRows }

\* the rows handed to _buildResult: the headers put before the rows unless
\* the first row equals them
withHeaders(rows, headers) ==
  IF headers # <<>> /\ rows # <<>>
  THEN IF rows[1] # headers THEN <<headers>> \o rows ELSE rows
  ELSE IF headers # <<>> THEN <<headers>>
  ELSE rows

\* _extractWithGptBytes
extractWithGptBytes(resp, source) ==
  IF resp.kind = "raises" THEN ErrorRecord("exception", source)
  ELSE IF resp.rowsKey
  THEN LET r == buildResultFrom(withHeaders(resp.rows, resp.headers), source)
       IN  [r EXCEPT !.keys = @ \cup {"title", "footnotes"}, !.type = "table_image"]
  ELSE [NoFields EXCEPT !.keys = {"description", "source", "structured"},
                        !.description = "response", !.source = source]

\* mutant: the fallback enabled whatever the handler was constructed with
enableGptFallbackAlways(flag, apiKey, llmClient) == TRUE

\* __init__: self.enableGptFallback = enableGptFallback and apiKey and llmClient
enableGptFallback(flag, apiKey, llmClient) == flag /\ apiKey /\ llmClient

NoResponse == [kind |-> "none", rowsKey |-> FALSE, rows |-> <<>>, headers |-> <<>>]

InitTableHandler ==
  /\ \E e \in {"pptx", "pdf", "image"}, f \in BOOLEAN, k \in BOOLEAN, l \in BOOLEAN :
        tbl = [pc |-> "call", entry |-> e, flag |-> f, apiKey |-> k, llmClient |-> l,
               parsed |-> NoFields, response |-> NoResponse, calls |-> <<>>,
               result |-> NoFields]
  /\ iou = IouIdle
  /\ nms = NmsIdle
  /\ cache = CacheIdle
  /\ cc = Off /\ ih = Off /\ pool = Off /\ fh = Off
  /\ main = MainIdle /\ doc = <<>> /\ analyzed = <<>> /\ meta = <<>>
  /\ imageFutures = <<>> /\ futures = <<>> /\ store = EmptyStore
  /\ results = <<>>

TableUnchanged == UNCHANGED <<iou, nms, cache, pipeVars, cc, ih, pool, fh>>

\* handlePptx: shape.table raises on a shape without a table
HandlePptx ==
  /\ tbl.pc = "call" /\ tbl.entry = "pptx"
  /\ \/ \E table \in PptxTables :
           tbl' = [tbl EXCEPT !.pc = "returned", !.result = pptxResult(table)]
     \/ tbl' = [tbl EXCEPT !.pc = "returned", !.result = ErrorRecord("exception", "pptx")]
  /\ TableUnchanged

\* handlePdf, lines 91-99: the parser, returned when it succeeded
HandlePdfParser ==
  /\ tbl.pc = "call" /\ tbl.entry = "pdf"
  /\ \E o \in ParserOutcomes :
        LET result == extractWithPdfplumber(o)
            tried == [tbl EXCEPT !.parsed = result, !.calls = Append(@, "pdfplumber")]
        IN  IF parserSucceeded(result)
            THEN tbl' = [tried EXCEPT !.pc = "returned", !.result = result]
            ELSE tbl' = [tried EXCEPT !.pc = "fallback"]
  /\ TableUnchanged

\* handlePdf, lines 102-114: the fallback; _extractWithGpt returns an error
\* record when the region cannot be rendered; llm.chat raises without client
HandlePdfFallback ==
  /\ tbl.pc = "fallback"
  /\ IF enableGptFallback(tbl.flag, tbl.apiKey, tbl.llmClient)
     THEN \/ tbl' = [tbl EXCEPT !.pc = "returned", !.calls = Append(@, "gpt"),
                                !.result = ErrorRecord("exception", "gpt-4o")]
          \/ \E resp \in Responses :
                /\ tbl.llmClient \/ resp.kind = "raises"
                /\ tbl' = [tbl EXCEPT !.pc = "returned", !.calls = Append(@, "gpt"),
                                      !.response = resp,
                                      !.result = extractWithGptBytes(resp, "gpt-4o-pdf-fallback")]
     ELSE tbl' = [tbl EXCEPT !.pc = "returned",
                             !.result = ErrorRecord("pdfplumber extraction failed",
                                                    "pdfplumber")]
  /\ TableUnchanged

\* handleImage: _extractWithGptBytes on the bytes of the image
HandleImage ==
  /\ tbl.pc = "call" /\ tbl.entry = "image"
  /\ \E resp \in Responses :
        /\ tbl.llmClient \/ resp.kind = "raises"
        /\ tbl' = [tbl EXCEPT !.pc = "returned", !.calls = Append(@, "gpt"),
                              !.response = resp,
                              !.result = extractWithGptBytes(resp, "gpt-4o-image")]
  /\ TableUnchanged

NextTableHandler == HandlePptx \/ HandlePdfParser \/ HandlePdfFallback \/ HandleImage

SpecTableHandler == InitTableHandler /\ [][NextTableHandler]_vars

\* C27: handlePdf runs the parser first; a parser result with a non-empty
\* grid is returned as it is, with no AI call; the AI fallback is invoked
\* only after the parser failed and only when the handler was constructed
\* with the fallback flag, an API key and a client; when the parser failed
\* and the fallback is off, the call returns the error record.
C27_ParserBeforeFallback ==
  (tbl.pc \in {"fallback", "returned"} /\ tbl.entry = "pdf") =>
     /\ tbl.calls # <<>> /\ tbl.calls[1] = "pdfplumber"
     /\ Index(tbl.calls, "gpt") # 0 =>
           /\ Index(tbl.calls, "gpt") = 2
           /\ ~parserSucceeded(tbl.parsed)
           /\ tbl.flag /\ tbl.apiKey /\ tbl.llmClient
     /\ (tbl.pc = "returned" /\ parserSucceeded(tbl.parsed)) =>
           /\ tbl.result = tbl.parsed
           /\ tbl.result.rows >= 1
           /\ tbl.result.source = "pdfplumber"
           /\ tbl.calls = <<"pdfplumber">>
     /\ (tbl.pc = "returned" /\ ~parserSucceeded(tbl.parsed)
           /\ ~(tbl.flag /\ tbl.apiKey /\ tbl.llmClient)) =>
           /\ "error" \in tbl.result.keys
           /\ tbl.calls = <<"pdfplumber">>
     /\ (tbl.pc = "returned" /\ ~parserSucceeded(tbl.parsed)
           /\ tbl.flag /\ tbl.apiKey /\ tbl.llmClient) =>
           tbl.calls = <<"pdfplumber", "gpt">>

\* a region on which the parser found nothing and the fallback returned a
\* table
C27_Witness ==
  /\ tbl.pc = "returned" /\ tbl.entry = "pdf"
  /\ tbl.parsed = NoFields
  /\ tbl.calls = <<"pdfplumber", "gpt">>
  /\ tbl.result.source = "gpt-4o-pdf-fallback"
  /\ tbl.result.rows = 2

\* C28: a result of the table handler without an error has a row count, a
\* column count, a grid whose rows all have as many cells as the column
\* count, every cell a string, and markdown.
C28_NormalizedShape ==
  (tbl.pc = "returned" /\ tbl.entry \in {"pptx", "pdf", "image"}
     /\ "error" \notin tbl.result.keys) =>
     /\ {"rows", "columns", "data", "markdown"} \subseteq tbl.result.keys
     /\ tbl.result.rows = Len(tbl.result.data)
     /\ \A i \in 1..Len(tbl.result.data) :
           /\ Len(tbl.result.data[i]) = tbl.result.columns
           /\ \A j \in 1..Len(tbl.result.data[i]) : tbl.result.data[i][j] # "<7>"

\* C29: when the AI answer has rows and headers, the grid begins with the
\* header row, the headers were added exactly when the first row is not
\* equal to them, and the header row is not followed by itself; with
\* headers and no rows the grid is the header row alone.
C29_HeaderOnce ==
  (tbl.pc = "returned" /\ tbl.entry \in {"pdf", "image"}
     /\ tbl.response.kind = "answer" /\ tbl.response.rowsKey
     /\ tbl.response.headers # <<>>) =>
     LET rows == tbl.response.rows
         headers == tbl.response.headers
         grid == tbl.result.data
         added == rows = <<>> \/ rows[1] # headers
         headerRow == padRight([j \in 1..Len(headers) |-> cleanCell(headers[j])],
                               tbl.result.columns)
     IN  /\ Len(grid) = Len(rows) + (IF added THEN 1 ELSE 0)
         /\ grid[1] = headerRow
         /\ Len(grid) >= 2 => grid[2] # headerRow
         /\ rows = <<>> => grid = <<headerRow>>

----------------------------------------------------------------------------
(* SpecFormulaPdf: FormulaHandler.handlePdf(page, bbox, scale) on one page  *)
(* region and FormulaHandler.handleImage(imageBytes) on one image. fh is    *)
(* [pc, entry, bbox, scale, llm, attempts, calls, response, result]:        *)
(* attempts the layers that ran and calls the llm.chat calls made (neither  *)
(* is read by the code).                                                    *)

\* the answers of the equation-OCR call: llm.chat raises; a text json.loads
\* rejects; a JSON value that is no object; an object whose "latex" is
\* latex, NoLatex for null or absent
OcrResponses ==
  { [kind |-> "raises", latex |-> NoLatex],
    [kind |-> "text", latex |-> NoLatex],
    [kind |-> "list", latex |-> NoLatex] }
    \cup { [kind |-> "object", latex |-> l] :
             l \in { NoLatex, <<"", 0>>, <<" ", 0>>, <<"latex", 2>> } }

NoError == "None"

\* _extractFormula: [latex, confidence, error], error "absent" for a dict
\* without that key
extractFormulaFrom(resp) ==
  CASE resp.kind = "text" ->
         [latex |-> NoLatex, confidence |-> 0, error |-> "json_parse_error"]
    [] resp.kind \in {"raises", "list"} ->
         [latex |-> NoLatex, confidence |-> 0, error |-> "absent"]
    [] OTHER ->
         [latex |-> resp.latex,
          confidence |-> IF Truthy(resp.latex) /\ strip(resp.latex[1]) # "" THEN 95 ELSE 0,
          error |-> "absent"]

\* mutant: the confidence of the answer kept when it has no LaTeX
pdfRecordKeepingConfidence(res) ==
  [source |-> "ocr", latex |-> res.latex, mathml |-> NoLatex,
   confidence |-> IF Truthy(res.latex) THEN res.confidence ELSE 95,
   error |-> IF Truthy(res.latex) THEN NoError ELSE "no_latex"]

\* handlePdf, lines 133-139: the record built from what _extractFormula gave
pdfRecord(res) ==
  [source |-> "ocr", latex |-> res.latex, mathml |-> NoLatex,
   confidence |-> res.confidence,
   error |-> IF Truthy(res.latex) THEN NoError ELSE "no_latex"]

NoOcrResponse == [kind |-> "none", latex |-> NoLatex]

InitFormulaPdf ==
  /\ \E e \in {"pdf", "image"}, b \in NmsBoxes, s \in 1..2, l \in BOOLEAN :
        fh = [pc |-> IF e = "pdf" THEN "render" ELSE "image", entry |-> e,
              bbox |-> b, scale |-> s, llm |-> l, attempts |-> <<>>, calls |-> <<>>,
              response |-> NoOcrResponse, result |-> NoFormula]
  /\ iou = IouIdle
  /\ nms = NmsIdle
  /\ cache = CacheIdle
  /\ cc = Off /\ ih = Off /\ pool = Off /\ tbl = Off
  /\ main = MainIdle /\ doc = <<>> /\ analyzed = <<>> /\ meta = <<>>
  /\ imageFutures = <<>> /\ futures = <<>> /\ store = EmptyStore
  /\ results = <<>>

\* handlePdf, lines 125-130: the region rendered; get_pixmap or tobytes may
\* raise; without a client the call returns here
PdfRender ==
  /\ fh.pc = "render"
  /\ \/ fh' = [fh EXCEPT !.pc = "returned",
                         !.result = [source |-> "pdf_error", latex |-> NoLatex,
                                     mathml |-> NoLatex, confidence |-> 0,
                                     error |-> "exception"]]
     \/ IF fh.llm
        THEN fh' = [fh EXCEPT !.pc = "ocr"]
        ELSE fh' = [fh EXCEPT !.pc = "returned",
                              !.result = [source |-> "ocr_no_llm", latex |-> NoLatex,
                                          mathml |-> NoLatex, confidence |-> 0,
                                          error |-> NoError]]
  /\ FormulaUnchanged

\* handlePdf, lines 132-139: the equation OCR
PdfOcr ==
  /\ fh.pc = "ocr"
  /\ \E resp \in OcrResponses :
        fh' = [fh EXCEPT !.pc = "returned",
                         !.attempts = Append(@, "ocr"),
                         !.calls = Append(@, "ocr"),
                         !.response = resp,
                         !.result = pdfRecord(extractFormulaFrom(resp))]
  /\ FormulaUnchanged

\* handleImage: the record of _extractFormula as it is; without a client
\* llm.chat raises inside _extractFormula
ImageOcr ==
  /\ fh.pc = "image"
  /\ \E resp \in OcrResponses :
        /\ fh.llm \/ resp.kind = "raises"
        /\ LET res == extractFormulaFrom(resp)
           IN  fh' = [fh EXCEPT !.pc = "returned",
                                !.attempts = Append(@, "ocr"),
                                !.calls = IF fh.llm THEN Append(@, "ocr") ELSE @,
                                !.response = resp,
                                !.result = [source |-> "image_delegation",
                                            latex |-> res.latex, mathml |-> NoLatex,
                                            confidence |-> res.confidence,
                                            error |-> res.error]]
  /\ FormulaUnchanged

NextFormulaPdf == PdfRender \/ PdfOcr \/ ImageOcr

SpecFormulaPdf == InitFormulaPdf /\ [][NextFormulaPdf]_vars

\* C32: handlePdf runs no markup and no text layer and makes at most one AI
\* call, the equation OCR, after rendering; a result without LaTeX has
\* confidence 0.0.
C32_PdfOcrOnly ==
  fh.entry = "pdf" =>
    /\ \A i \in 1..Len(fh.attempts) : fh.attempts[i] = "ocr"
    /\ \A i \in 1..Len(fh.calls) : fh.calls[i] = "ocr"
    /\ Len(fh.calls) <= 1
    /\ fh.calls # <<>> => fh.pc = "returned"
    /\ (fh.pc = "returned" /\ ~Truthy(fh.result.latex)) => fh.result.confidence = 0

\* a region whose OCR answer was an object without LaTeX
C32_Witness ==
  /\ fh.entry = "pdf"
  /\ fh.pc = "returned"
  /\ fh.calls = <<"ocr">>
  /\ fh.response.kind = "object"
  /\ fh.result.latex = <<"", 0>>
  /\ fh.result.confidence = 0
  /\ fh.result.error = "no_latex"

\* C33: without a client handlePdf returns without an AI call, and a result
\* of handlePdf without LaTeX carries an error that is not None.
C33_NullLatexHasError ==
  (fh.entry = "pdf" /\ fh.pc = "returned") =>
    /\ ~fh.llm => fh.calls = <<>>
    /\ fh.result.latex = NoLatex => fh.result.error # NoError

\* C34: when the answer of the equation OCR does not parse, handlePdf
\* returns a record whose error is 'json_parse_error'.
C34_ParseErrorStatus ==
  (fh.entry = "pdf" /\ fh.pc = "returned" /\ fh.response.kind = "text") =>
     fh.result.error = "json_parse_error"

----------------------------------------------------------------------------
(* SpecClassify: ShapeClassifier.classifyShape(shape) on one slide shape.   *)
(* analyzed is [pc, shape, result]. A shape is what the classifier reads of *)
(* it: shape_type, the .image access of a placeholder, the markup element   *)
(* (its xpath lookup, its xml text), the text runs, has_text_frame and text. *)

\* shape.shape_type: the members of MSO_SHAPE_TYPE the code names, the two it
\* tests by number (15 is TEXT_EFFECT, 17 is TEXT_BOX) and one it does not
ShapeTypes ==
  { "PICTURE", "TABLE", "CHART", "EMBEDDED_OLE_OBJECT", "TEXT_EFFECT", "GROUP",
    "TEXT_BOX", "PLACEHOLDER", "AUTO_SHAPE" }

\* shape.text of a shape with a text frame: empty, blank, or with content
ShapeTexts == { "", " ", "abc" }

\* the shapes classified: el is whether _element (or element) is there,
\* xpath whether the element has no xpath, one that raises or one that works,
\* mathNodes / oleNodes what the two xpath lookups find, xmlMath / xmlOle
\* whether el.xml holds 'oMath' / 'oleObj', runsMath whether a text run's xml
\* holds 'oMath', image the outcome of shape.image. Nodes an xpath lookup
\* finds are in the xml text too; a shape without element has no markup; only
\* a shape with a text frame has runs and text, and a text box has one
SlideShapes ==
  { s \in [t : ShapeTypes,
           image : {"data", "AttributeError"},
           el : BOOLEAN,
           xpath : {"absent", "raises", "ok"},
           mathNodes : BOOLEAN, oleNodes : BOOLEAN,
           xmlMath : BOOLEAN, xmlOle : BOOLEAN,
           runsMath : BOOLEAN,
           has_text_frame : BOOLEAN,
           text : ShapeTexts] :
      /\ (s.mathNodes => s.xmlMath) /\ (s.oleNodes => s.xmlOle)
      /\ (~s.el => /\ s.xpath = "absent" /\ ~s.xmlMath /\ ~s.xmlOle)
      /\ (s.xpath # "ok" => ~s.mathNodes /\ ~s.oleNodes)
      /\ (~s.has_text_frame => ~s.runsMath /\ s.text = "")
      /\ (s.t # "PLACEHOLDER" => s.image = "AttributeError")
      /\ (s.t \in {"PICTURE", "TABLE", "CHART", "EMBEDDED_OLE_OBJECT", "GROUP"}
            => ~s.has_text_frame)
      /\ (s.t = "TEXT_BOX" => s.has_text_frame) }

\* _hasOmml reading the element xml only: the xpath lookup and the text runs
\* left out
_hasOmmlXmlOnly(shape) == shape.el /\ shape.xmlMath

\* _hasOmml: False without element; else the xpath lookup when the element
\* has one (a raising lookup is passed over), else 'oMath' in el.xml, else
\* 'oMath' in the xml of a text run
_hasOmml(shape) ==
  IF ~shape.el THEN FALSE
  ELSE IF shape.xpath = "ok" /\ shape.mathNodes THEN TRUE
  ELSE IF shape.xmlMath THEN TRUE
  ELSE IF shape.has_text_frame /\ shape.runsMath THEN TRUE
  ELSE FALSE

\* _hasOle: False without element; else the xpath lookup for oleObj, else
\* 'oleObj' in el.xml
_hasOle(shape) ==
  IF ~shape.el THEN FALSE
  ELSE IF shape.xpath = "ok" /\ shape.oleNodes THEN TRUE
  ELSE shape.xmlOle

\* classifyShape with the placeholder's image test moved before the math
\* markup test
classifyShapeImageFirst(shape) ==
  LET t == shape.t IN
  IF t = "PICTURE" THEN "image"
  ELSE IF t = "TABLE" THEN "table"
  ELSE IF t = "CHART" THEN "chart"
  ELSE IF t = "EMBEDDED_OLE_OBJECT" THEN "equation"
  ELSE IF t = "PLACEHOLDER" /\ shape.image = "data" THEN "image"
  ELSE IF _hasOmml(shape) THEN "equation"
  ELSE IF t = "TEXT_EFFECT" THEN "diagram"
  ELSE IF t = "GROUP"
       THEN IF _hasOmml(shape) \/ _hasOle(shape) THEN "equation" ELSE "group"
  ELSE IF t = "TEXT_BOX" THEN "text"
  ELSE IF t = "PLACEHOLDER"
       THEN IF shape.has_text_frame /\ strip(shape.text) # "" THEN "text"
            ELSE "unknown"
  ELSE IF shape.has_text_frame THEN "text"
  ELSE "unknown"

\* classifyShape, in the order of its lines 9-51
classifyShape(shape) ==
  LET t == shape.t IN
  IF t = "PICTURE" THEN "image"
  ELSE IF t = "TABLE" THEN "table"
  ELSE IF t = "CHART" THEN "chart"
  ELSE IF t = "EMBEDDED_OLE_OBJECT" THEN "equation"
  ELSE IF _hasOmml(shape) THEN "equation"
  ELSE IF t = "TEXT_EFFECT" THEN "diagram"
  ELSE IF t = "GROUP"
       THEN IF _hasOmml(shape) \/ _hasOle(shape) THEN "equation" ELSE "group"
  ELSE IF t = "TEXT_BOX" THEN "text"
  ELSE IF t = "PLACEHOLDER"
       THEN IF shape.image = "data" THEN "image"
            ELSE IF _hasOmml(shape) THEN "equation"
            ELSE IF shape.has_text_frame /\ strip(shape.text) # "" THEN "text"
            ELSE "unknown"
  ELSE IF shape.has_text_frame
       THEN IF _hasOmml(shape) THEN "equation" ELSE "text"
  ELSE "unknown"

InitClassify ==
  /\ \E s \in SlideShapes : analyzed = [pc |-> "shape", shape |-> s, result |-> "None"]
  /\ iou = IouIdle
  /\ nms = NmsIdle
  /\ cache = CacheIdle
  /\ cc = Off /\ ih = Off /\ pool = Off /\ tbl = Off /\ fh = Off
  /\ main = MainIdle /\ doc = <<>> /\ meta = <<>>
  /\ imageFutures = <<>> /\ futures = <<>> /\ store = EmptyStore
  /\ results = <<>>

\* the call classifyShape(shape) of PptxAnalyzer
ClassifyShape ==
  /\ analyzed.pc = "shape"
  /\ analyzed' = [analyzed EXCEPT !.pc = "classified",
                                  !.result = classifyShape(analyzed.shape)]
  /\ UNCHANGED <<iou, nms, cache, main, doc, meta, imageFutures, futures,
                 store, results, moreVars>>

NextClassify == ClassifyShape

SpecClassify == InitClassify /\ [][NextClassify]_vars

\* math markup anywhere in the shape's markup: found by the xpath lookup, in
\* the element's xml text, or in the xml of a text run
MathMarkup(s) ==
  s.el /\ (s.mathNodes \/ s.xmlMath \/ (s.has_text_frame /\ s.runsMath))

\* an embedded object among the shape's children
EmbeddedObject(s) == s.el /\ (s.oleNodes \/ s.xmlOle)

\* the shapes the first six rules decide
EarlyRule(s) ==
  \/ s.t \in {"PICTURE", "TABLE", "CHART", "EMBEDDED_OLE_OBJECT", "GROUP"}
  \/ MathMarkup(s)

\* C35: classifyShape follows the fixed priority order: picture -> image,
\* else table -> table, else chart -> chart, else embedded object ->
\* equation, else math markup anywhere in the shape's markup -> equation,
\* else a group -> equation if a child has math markup or an embedded
\* object and group otherwise; only a shape none of these rules decided
\* gets its type from the placeholder, text and unknown rules.
C35_PriorityOrder ==
  analyzed.pc = "classified" =>
    LET s == analyzed.shape
        r == analyzed.result
    IN  /\ s.t = "PICTURE" => r = "image"
        /\ s.t = "TABLE" => r = "table"
        /\ s.t = "CHART" => r = "chart"
        /\ s.t = "EMBEDDED_OLE_OBJECT" => r = "equation"
        /\ (s.t \notin {"PICTURE", "TABLE", "CHART"} /\ MathMarkup(s))
              => r = "equation"
        /\ (s.t = "GROUP" /\ ~MathMarkup(s))
              => r = IF EmbeddedObject(s) THEN "equation" ELSE "group"
        /\ (r \in {"text", "unknown"} \/ (s.t = "PLACEHOLDER" /\ r = "image"))
              => ~EarlyRule(s)

\* a placeholder exposing image data whose markup holds math: an equation
C35_Witness ==
  /\ analyzed.pc = "classified"
  /\ analyzed.shape.t = "PLACEHOLDER" /\ analyzed.shape.image = "data"
  /\ MathMarkup(analyzed.shape)
  /\ analyzed.result = "equation"

\* C36: classifyShape returns 'text' only for shapes exposing non-empty
\* text: a placeholder is image if it exposes image data, else equation with
\* math markup, else text if its text is non-empty, else unknown; any other
\* shape the earlier rules left is text only with non-empty text and no math
\* markup and unknown otherwise (an empty text frame is unknown, not text).
C36_TextNeedsText ==
  analyzed.pc = "classified" =>
    LET s == analyzed.shape
        r == analyzed.result
    IN  /\ r = "text" => (s.has_text_frame /\ strip(s.text) # "")
        /\ (s.has_text_frame /\ strip(s.text) = "" /\ ~EarlyRule(s)
              /\ ~(s.t = "PLACEHOLDER" /\ s.image = "data")
              /\ s.t # "TEXT_EFFECT")
             => r = "unknown"

\* C37: classifyShape never returns 'text' for a shape in which math markup
\* is detected: on every path that returns text the math-markup check has
\* run first and returned equation.
C37_NoTextWithMath ==
  (analyzed.pc = "classified" /\ MathMarkup(analyzed.shape)) =>
     analyzed.result # "text"

\* a text box whose math is found only in a text run, classified equation
C37_Witness ==
  /\ analyzed.pc = "classified"
  /\ analyzed.shape.t = "TEXT_BOX"
  /\ ~analyzed.shape.xmlMath /\ analyzed.shape.runsMath
  /\ analyzed.shape.text = "abc"
  /\ analyzed.result = "equation"

----------------------------------------------------------------------------
(* SpecCounters: the coordinator tasks of ImageHandler._processImageAsync   *)
(* running on the pool's workers, one task per worker, and the fields of    *)
(* the handler they write. cc is [pc, category, tmp, apiCallCount, hashes,  *)
(* increments, writes]: tmp is the value a task has read for its            *)
(* self.apiCallCount += 1, hashes the image hashes in the cache; increments *)
(* counts the += 1 statements executed and writes names the handler fields  *)
(* written from a worker (neither is read by the code).                     *)

\* the categories the tasks' images get: one delegated, one described
CounterCategories == { "Table", "Photo" }

\* a miss for every image: _processImageAsync has submitted one coordinator
\* per image and the handler's counters are as __init__ leaves them
InitCounters ==
  /\ \E c \in [WorkerIds -> CounterCategories] :
        cc = [pc |-> [w \in WorkerIds |-> "categorize"], category |-> c,
              tmp |-> [w \in WorkerIds |-> 0], apiCallCount |-> 0,
              hashes |-> {}, increments |-> 0, writes |-> {}]
  /\ iou = IouIdle
  /\ nms = NmsIdle
  /\ cache = CacheIdle
  /\ ih = Off /\ pool = Off /\ tbl = Off /\ fh = Off
  /\ main = MainIdle /\ doc = <<>> /\ analyzed = <<>> /\ meta = <<>>
  /\ imageFutures = <<>> /\ futures = <<>> /\ store = EmptyStore
  /\ results = <<>>

CountersUnchanged ==
  UNCHANGED <<iou, nms, cache, pipeVars, ih, pool, tbl, fh>>

\* self.apiCallCount += 1, first half: the worker reads the field
CounterRead(w) ==
  /\ cc.pc[w] \in {"categorize", "describe"}
  /\ cc' = [cc EXCEPT !.pc[w] = IF cc.pc[w] = "categorize"
                                THEN "categorize_store" ELSE "describe_store",
                      !.tmp[w] = cc.apiCallCount]
  /\ CountersUnchanged

\* self.apiCallCount += 1, second half: the worker stores the sum
CounterStore(w) ==
  /\ cc.pc[w] \in {"categorize_store", "describe_store"}
  /\ cc' = [cc EXCEPT !.pc[w] = IF cc.pc[w] = "categorize_store"
                                THEN "categorize_chat" ELSE "describe_chat",
                      !.apiCallCount = cc.tmp[w] + 1,
                      !.increments = @ + 1,
                      !.writes = @ \cup {"apiCallCount"}]
  /\ CountersUnchanged

\* _categorize after the count: llm.chat returns (the category is the
\* task's) or raises, and the coordinator's except resolves the future
CounterCategorizeChat(w) ==
  /\ cc.pc[w] = "categorize_chat"
  /\ \E ok \in BOOLEAN :
        cc' = [cc EXCEPT !.pc[w] = IF ok THEN "dispatch" ELSE "failed"]
  /\ CountersUnchanged

\* _dispatch: a table image goes to tableHandler.handleImage, which counts
\* nothing; any other image to _generateDescription
CounterDispatch(w) ==
  /\ cc.pc[w] = "dispatch"
  /\ cc' = [cc EXCEPT !.pc[w] = IF branch(lower(cc.category[w])) = "table"
                                THEN "cache" ELSE "describe"]
  /\ CountersUnchanged

\* _generateDescription after the count: llm.chat returns or raises
CounterDescribeChat(w) ==
  /\ cc.pc[w] = "describe_chat"
  /\ \E ok \in BOOLEAN :
        cc' = [cc EXCEPT !.pc[w] = IF ok THEN "cache" ELSE "failed"]
  /\ CountersUnchanged

\* coordinator, lines 163-166: cache.set, then future.set_result
CounterCacheSet(w) ==
  /\ cc.pc[w] = "cache"
  /\ cc' = [cc EXCEPT !.pc[w] = "resolved",
                      !.hashes = @ \cup {w},
                      !.writes = @ \cup {"cache"}]
  /\ CountersUnchanged

NextCounters ==
  \E w \in WorkerIds :
     \/ CounterRead(w)
     \/ CounterStore(w)
     \/ CounterCategorizeChat(w)
     \/ CounterDispatch(w)
     \/ CounterDescribeChat(w)
     \/ CounterCacheSet(w)

SpecCounters == InitCounters /\ [][NextCounters]_vars

\* C38: the Content Cache is the only mutable state written by tasks on
\* pool workers: no other handler field (the API-call and cache-hit
\* counters among them) is written from a worker task, so no update outside
\* the cache is lost: the call counter holds every increment made.
C38_WorkersWriteCacheOnly ==
  /\ cc.writes \subseteq {"cache"}
  /\ cc.apiCallCount = cc.increments

\* two increments made, one kept
CountLost == cc.increments = 2 /\ cc.apiCallCount = 1

----------------------------------------------------------------------------
(* Futures of handlePdfAsync / handlePptxAsync: resolution and termination  *)

\* the detections and shapes of the documents joined here: text, handled
\* in the second pass, and pictures, handled by futures
JoinDets == { d \in ExtractDets : d.class_name \in {"text", "figure"} }

JoinElems ==
  { e \in PptxElems : e.found /\ e.classified_type \in {"text", "image"} }

\* extract(filePath, analyzedElements) on a one-page PDF or a one-slide
\* PPTX of these
InitJoin ==
  /\ \/ /\ \E d \in DocsWith(JoinDets, 1, MaxDets) :
              /\ doc = [p \in 1..Len(d) |-> Tagged(d[p])]
              /\ analyzed = [p \in 1..Len(d) |-> [num |-> p, items |-> Tagged(d[p])]]
        /\ main = [MainIdle EXCEPT !.kind = "pdf", !.pc = "submit"]
     \/ /\ \E d \in DocsWith(JoinElems, 1, MaxDets) :
              /\ doc = [p \in 1..Len(d) |-> TaggedShapes(d[p])]
              /\ analyzed = [p \in 1..Len(d) |-> [num |-> p, items |-> TaggedShapes(d[p])]]
        /\ main = [MainIdle EXCEPT !.kind = "pptx", !.pc = "submit"]
  /\ PipeStart

\* the main thread runs while it can, a pool worker takes every queued
\* coordinator, and every AI call of a coordinator returns or raises: some
\* enabled step of the extraction is eventually taken
SpecJoinFair == InitJoin /\ [][NextExtract]_vars /\ WF_vars(NextExtract)

\* extract has returned or raised
ExtractEnded == main.pc \in {"done", "raised"}

\* a future already resolved keeps its state and its value
StaysResolved(f) ==
  futures[f].state # "pending" =>
     /\ futures'[f].state = futures[f].state
     /\ futures'[f].value = futures[f].value

\* a future as it is returned: resolved with no task behind it (a hit, or
\* the error string when the bytes could not be obtained), or pending with
\* its coordinator submitted
ReturnedFuture(f) ==
  \/ /\ f.state = "result" /\ f.task = "none"
     /\ f.value = ErrorString \/ (f.hash # NoHash /\ Truthy(f.value))
  \/ f.state = "pending" /\ f.task = "queued"

\* a pending future is resolved by its coordinator only, with a value after
\* the cache write or with an exception
ResolvedByCoordinator(f) ==
  (futures[f].state = "pending" /\ futures'[f].state # "pending") =>
     /\ futures[f].task \in {"queued", "cached"}
     /\ futures'[f].task = "finished"

FutureStep ==
  /\ Len(futures') >= Len(futures)
  /\ \A f \in 1..Len(futures) : StaysResolved(f) /\ ResolvedByCoordinator(f)
  /\ \A f \in (Len(futures) + 1)..Len(futures') : ReturnedFuture(futures'[f])

AllResolved == \A f \in 1..Len(futures) : futures[f].state # "pending"

\* C39: every future returned by handlePdfAsync / handlePptxAsync is
\* resolved exactly once: at once with the cached value on a hit, at once
\* with the error string and no task when the image bytes cannot be had, or
\* by its coordinator with a value or an exception on a miss; and when every
\* AI call returns or raises, every future is resolved and extract ends.
C39_ResolvedOnceAndEnds ==
  /\ [][FutureStep]_vars
  /\ <>(ExtractEnded /\ AllResolved)

\* extract returned after joining a hit, an error string and a miss
C39_Witness ==
  /\ main.pc = "done"
  /\ \E f \in 1..Len(futures) : futures[f].task = "none" /\ futures[f].value = ErrorString
  /\ \E f \in 1..Len(futures) : futures[f].task = "none" /\ futures[f].hash # NoHash
  /\ \E f \in 1..Len(futures) : futures[f].task = "finished" /\ futures[f].state = "result"

----------------------------------------------------------------------------
(* The cache write of a coordinator and the resolution of its future        *)

\* the coordinator of request r resolves its future with a value in this
\* step: the cache holds an entry for the image's hash, written by this run
ResolvesWithValue(r) ==
  (ih.reqs[r].fut.state = "pending" /\ ih'.reqs[r].fut.state = "result") =>
     /\ ih.reqs[r].fut.hash \in DictKeys(ih.store.mem)
     /\ \E w \in ih.writes : w.req = r

\* the coordinator of request r raises in this step: cache and file are
\* as they were, and the run has written nothing
ResolvesWithException(r) ==
  (ih.reqs[r].fut.state = "pending" /\ ih'.reqs[r].fut.state = "exception") =>
     /\ ih'.store = ih.store
     /\ \A w \in ih'.writes : w.req # r

\* the cache gets an entry only from a coordinator that has its result
CacheWrittenByCompletedRun ==
  ih'.store # ih.store =>
     \E t \in 1..Len(ih.tasks) :
        /\ ih.tasks[t].pc = "cache" /\ ih'.tasks[t].pc = "resolve"
        /\ ih'.store = set(ih.store, ih.reqs[ih.tasks[t].req].fut.hash, ih.tasks[t].local)
        /\ ih.reqs[ih.tasks[t].req].fut.state = "pending"

\* C40: the cache receives an entry for an image hash only from a run whose
\* categorization and dispatch completed without raising, and before that
\* run's future is resolved: when a miss future resolves with a value the
\* cache already holds an entry for its hash, and a run that raises leaves
\* the cache and the persisted store unchanged.
C40_CacheBeforeResolve ==
  [][ /\ CacheWrittenByCompletedRun
      /\ \A r \in 1..Len(ih.reqs) : ResolvesWithValue(r) /\ ResolvesWithException(r) ]_vars

\* one miss resolved with its value in the cache, another run raised
C40_Witness ==
  /\ ih.pc = "on"
  /\ \E r \in 1..Len(ih.reqs) :
        /\ ih.reqs[r].returned.state = "pending"
        /\ ih.reqs[r].fut.state = "result"
        /\ get(ih.store, ih.reqs[r].fut.hash) = ih.reqs[r].fut.value
  /\ \E r \in 1..Len(ih.reqs) : ih.reqs[r].fut.state = "exception"

====
